---- MODULE Spec2Model ----
(***************************************************************************)
(* A model of knowledge_base_builder_kimi.py: the tool-calling loop        *)
(* run_with_tools, the lenient JSON parser parse_json_response, the        *)
(* process-wide slot _current_document_data with the two extraction        *)
(* functions that set and clear it, and the reflection-based schema        *)
(* generator function_to_tool_schema.                                      *)
(*                                                                         *)
(* Python strings are sequences of one-character strings; Python's None is *)
(* the record None and a str s is Str(s), so that "absent" and "empty" are *)
(* different values, as they are in the code.                              *)
(***************************************************************************)
EXTENDS Integers, Sequences, FiniteSets, TLC

(***************************************************************************)
(* Strings                                                                 *)
(***************************************************************************)

\* The characters str.strip() removes and json's scanner skips.
WS == {" ", "\n", "\t", "\r"}

None == [none |-> TRUE, text |-> <<>>]
Str(s) == [none |-> FALSE, text |-> s]

\* Python truthiness of an Optional[str]: None and "" are falsy.
Truthy(c) == ~c.none /\ c.text # <<>>

MinOf(S) == CHOOSE x \in S : \A y \in S : x <= y

RECURSIVE LStrip(_)
LStrip(s) == IF s = <<>> \/ s[1] \notin WS THEN s ELSE LStrip(Tail(s))

RECURSIVE RStrip(_)
RStrip(s) ==
    IF s = <<>> \/ s[Len(s)] \notin WS THEN s ELSE RStrip(SubSeq(s, 1, Len(s) - 1))

\* str.strip()
Strip(s) == RStrip(LStrip(s))

\* s[a:b] for 0 <= a, with Python's clamping of b.
Slice(s, a, b) == SubSeq(s, a + 1, IF b > Len(s) THEN Len(s) ELSE b)

\* s.find(pat, start): the lowest 0-based index >= start where pat occurs, or -1.
Find(s, pat, start) ==
    LET hits == {i \in start..(Len(s) - Len(pat)) : SubSeq(s, i + 1, i + Len(pat)) = pat}
    IN  IF hits = {} THEN -1 ELSE MinOf(hits)

\* s.rfind(pat): the highest 0-based index where pat occurs, or -1.
RFind(s, pat) ==
    LET hits == {i \in 0..(Len(s) - Len(pat)) : SubSeq(s, i + 1, i + Len(pat)) = pat}
    IN  IF hits = {} THEN -1 ELSE CHOOSE x \in hits : \A y \in hits : y <= x

StartsWith(s, pat) == Len(s) >= Len(pat) /\ SubSeq(s, 1, Len(pat)) = pat
EndsWith(s, pat) == Len(s) >= Len(pat) /\ SubSeq(s, Len(s) - Len(pat) + 1, Len(s)) = pat

\* The backquote character (a TLA+ string cannot hold it; the texts given to
\* parse_json_response hold no apostrophe).
Tick == "'"

FenceJson == <<Tick, Tick, Tick, "j", "s", "o", "n">>
Fence == <<Tick, Tick, Tick>>

(***************************************************************************)
(* json.loads: the decoder of the standard library, strict mode.  A        *)
(* decoded value is represented by its text with the insignificant         *)
(* whitespace removed.                                                     *)
(***************************************************************************)

Digits == {"0", "1", "2", "3", "4", "5", "6", "7", "8", "9"}
HexDigits == Digits \cup {"a", "b", "c", "d", "e", "f", "A", "B", "C", "D", "E", "F"}
SimpleEscapes == {"\"", "\\", "/", "b", "f", "n", "r", "t"}

JFail == [ok |-> FALSE, pos |-> 0, val |-> <<>>]
JOk(p, v) == [ok |-> TRUE, pos |-> p, val |-> v]

At(s, i) == IF i >= 1 /\ i <= Len(s) THEN s[i] ELSE ""

RECURSIVE SkipWS(_, _)
SkipWS(s, i) == IF At(s, i) \in WS THEN SkipWS(s, i + 1) ELSE i

RECURSIVE SkipDigits(_, _)
SkipDigits(s, i) == IF At(s, i) \in Digits THEN SkipDigits(s, i + 1) ELSE i

\* The position after the closing quote of the string whose body starts at j,
\* or 0 when the string is unterminated, holds a control character or a bad escape.
RECURSIVE ScanString(_, _)
ScanString(s, j) ==
    IF j > Len(s) THEN 0
    ELSE IF s[j] = "\"" THEN j + 1
    ELSE IF s[j] \in {"\n", "\t", "\r"} THEN 0
    ELSE IF s[j] = "\\" THEN
        IF At(s, j + 1) \in SimpleEscapes THEN ScanString(s, j + 2)
        ELSE IF At(s, j + 1) = "u" /\ \A k \in 2..5 : At(s, j + k) \in HexDigits
             THEN ScanString(s, j + 6)
        ELSE 0
    ELSE ScanString(s, j + 1)

ParseString(s, i) ==
    LET e == ScanString(s, i + 1)
    IN  IF e = 0 THEN JFail ELSE JOk(e, SubSeq(s, i, e - 1))

\* NUMBER_RE: (-?(?:0|[1-9]\d*))(\.\d+)?([eE][-+]?\d+)?
ParseNumber(s, i) ==
    LET d == IF At(s, i) = "-" THEN i + 1 ELSE i
        intEnd == IF At(s, d) = "0" THEN d + 1
                  ELSE IF At(s, d) \in Digits THEN SkipDigits(s, d)
                  ELSE 0
        fracEnd == IF intEnd # 0 /\ At(s, intEnd) = "." /\ At(s, intEnd + 1) \in Digits
                   THEN SkipDigits(s, intEnd + 1) ELSE intEnd
        sgn == IF At(s, fracEnd + 1) \in {"+", "-"} THEN fracEnd + 2 ELSE fracEnd + 1
        expEnd == IF fracEnd # 0 /\ At(s, fracEnd) \in {"e", "E"} /\ At(s, sgn) \in Digits
                  THEN SkipDigits(s, sgn) ELSE fracEnd
    IN  IF intEnd = 0 THEN JFail ELSE JOk(expEnd, SubSeq(s, i, expEnd - 1))

Literal(s, i, word) ==
    IF i + Len(word) - 1 <= Len(s) /\ SubSeq(s, i, i + Len(word) - 1) = word
    THEN JOk(i + Len(word), word) ELSE JFail

RECURSIVE ParseValue(_, _), ParseElements(_, _, _), ParseMembers(_, _, _)

\* scanner.py_make_scanner._scan_once
ParseValue(s, i) ==
    LET c == At(s, i) IN
    IF c = "" THEN JFail
    ELSE IF c = "\"" THEN ParseString(s, i)
    ELSE IF c = "{" THEN
        LET j == SkipWS(s, i + 1) IN
        IF At(s, j) = "}" THEN JOk(j + 1, <<"{", "}">>)
        ELSE ParseMembers(s, j, <<"{">>)
    ELSE IF c = "[" THEN
        LET j == SkipWS(s, i + 1) IN
        IF At(s, j) = "]" THEN JOk(j + 1, <<"[", "]">>)
        ELSE ParseElements(s, j, <<"[">>)
    ELSE IF c = "n" /\ Literal(s, i, <<"n", "u", "l", "l">>).ok
        THEN Literal(s, i, <<"n", "u", "l", "l">>)
    ELSE IF c = "t" /\ Literal(s, i, <<"t", "r", "u", "e">>).ok
        THEN Literal(s, i, <<"t", "r", "u", "e">>)
    ELSE IF c = "f" /\ Literal(s, i, <<"f", "a", "l", "s", "e">>).ok
        THEN Literal(s, i, <<"f", "a", "l", "s", "e">>)
    ELSE IF ParseNumber(s, i).ok THEN ParseNumber(s, i)
    ELSE IF c = "N" THEN Literal(s, i, <<"N", "a", "N">>)
    ELSE IF c = "I" THEN Literal(s, i, <<"I", "n", "f", "i", "n", "i", "t", "y">>)
    ELSE IF c = "-" THEN Literal(s, i, <<"-", "I", "n", "f", "i", "n", "i", "t", "y">>)
    ELSE JFail

\* decoder.JSONArray, from the first element at i; acc is the text so far.
ParseElements(s, i, acc) ==
    LET v == ParseValue(s, i) IN
    IF ~v.ok THEN JFail
    ELSE LET j == SkipWS(s, v.pos) IN
         IF At(s, j) = "]" THEN JOk(j + 1, acc \o v.val \o <<"]">>)
         ELSE IF At(s, j) = "," THEN ParseElements(s, SkipWS(s, j + 1), acc \o v.val \o <<",">>)
         ELSE JFail

\* decoder.JSONObject, from the first key at i; acc is the text so far.
ParseMembers(s, i, acc) ==
    IF At(s, i) # "\"" THEN JFail
    ELSE LET k == ParseString(s, i) IN
         IF ~k.ok THEN JFail
         ELSE LET c == SkipWS(s, k.pos) IN
              IF At(s, c) # ":" THEN JFail
              ELSE LET v == ParseValue(s, SkipWS(s, c + 1)) IN
                   IF ~v.ok THEN JFail
                   ELSE LET j == SkipWS(s, v.pos)
                            soFar == acc \o k.val \o <<":">> \o v.val
                        IN  IF At(s, j) = "}" THEN JOk(j + 1, soFar \o <<"}">>)
                            ELSE IF At(s, j) = ","
                                 THEN ParseMembers(s, SkipWS(s, j + 1), soFar \o <<",">>)
                            ELSE JFail

\* json.loads(s): [ok |-> TRUE, val |-> v], or [ok |-> FALSE] for JSONDecodeError.
json_loads(s) ==
    LET v == ParseValue(s, SkipWS(s, 1)) IN
    IF v.ok /\ SkipWS(s, v.pos) = Len(s) + 1
    THEN [ok |-> TRUE, val |-> v.val]
    ELSE [ok |-> FALSE, val |-> <<>>]

(***************************************************************************)
(* parse_json_response                                                     *)
(***************************************************************************)

\* A fence removal that leaves the closing generic fence in the text.
StripFencesOpeningOnly(cleaned) ==
    IF Find(cleaned, FenceJson, 0) # -1 THEN
        LET start == Find(cleaned, FenceJson, 0) + 7
            end == Find(cleaned, Fence, start)
        IN  IF end # -1 THEN Strip(Slice(cleaned, start, end))
            ELSE Strip(Slice(cleaned, start, Len(cleaned)))
    ELSE IF StartsWith(cleaned, Fence) THEN
        LET nl == Find(cleaned, <<"\n">>, 0)
        IN  Strip(IF nl # -1 THEN Slice(cleaned, nl + 1, Len(cleaned))
                  ELSE Slice(cleaned, 3, Len(cleaned)))
    ELSE cleaned

\* A fence removal that looks for a generic fence at the start first.
StripFencesGenericFirst(cleaned) ==
    IF StartsWith(cleaned, Fence) THEN
        LET nl == Find(cleaned, <<"\n">>, 0)
            opened == IF nl # -1 THEN Slice(cleaned, nl + 1, Len(cleaned))
                      ELSE Slice(cleaned, 3, Len(cleaned))
            rnl == RFind(opened, <<"\n">>)
            closed == IF EndsWith(opened, Fence)
                      THEN (IF rnl # -1 THEN Slice(opened, 0, rnl)
                            ELSE Slice(opened, 0, Len(opened) - 3))
                      ELSE opened
        IN  Strip(closed)
    ELSE IF Find(cleaned, FenceJson, 0) # -1 THEN
        LET start == Find(cleaned, FenceJson, 0) + 7
            end == Find(cleaned, Fence, start)
        IN  IF end # -1 THEN Strip(Slice(cleaned, start, end))
            ELSE Strip(Slice(cleaned, start, Len(cleaned)))
    ELSE cleaned

\* Lines 161-178: the text with its markdown fence removed.
StripFences(cleaned) ==
    IF Find(cleaned, FenceJson, 0) # -1 THEN
        LET start == Find(cleaned, FenceJson, 0) + 7
            end == Find(cleaned, Fence, start)
        IN  IF end # -1 THEN Strip(Slice(cleaned, start, end))
            ELSE Strip(Slice(cleaned, start, Len(cleaned)))
    ELSE IF StartsWith(cleaned, Fence) THEN
        LET nl == Find(cleaned, <<"\n">>, 0)
            opened == IF nl # -1 THEN Slice(cleaned, nl + 1, Len(cleaned))
                      ELSE Slice(cleaned, 3, Len(cleaned))
            rnl == RFind(opened, <<"\n">>)
            closed == IF EndsWith(opened, Fence)
                      THEN (IF rnl # -1 THEN Slice(opened, 0, rnl)
                            ELSE Slice(opened, 0, Len(opened) - 3))
                      ELSE opened
        IN  Strip(closed)
    ELSE cleaned

\* A preamble rule that cuts at the first bracket when there is one.
SkipPreambleBracketFirst(cleaned) ==
    IF cleaned # <<>> /\ cleaned[1] \notin {"{", "["} THEN
        LET brace == Find(cleaned, <<"{">>, 0)
            bracket == Find(cleaned, <<"[">>, 0)
            json_start == IF bracket # -1 THEN bracket ELSE brace
        IN  IF json_start # -1
            THEN [found |-> TRUE, text |-> Slice(cleaned, json_start, Len(cleaned))]
            ELSE [found |-> FALSE, text |-> cleaned]
    ELSE [found |-> TRUE, text |-> cleaned]

\* A parser that never skips a preamble.
SkipPreambleNone(cleaned) == [found |-> TRUE, text |-> cleaned]

\* Lines 180-193: [found |-> FALSE] when the text holds neither brace nor bracket.
SkipPreamble(cleaned) ==
    IF cleaned # <<>> /\ cleaned[1] \notin {"{", "["} THEN
        LET brace == Find(cleaned, <<"{">>, 0)
            bracket == Find(cleaned, <<"[">>, 0)
            json_start == IF brace = -1 THEN bracket
                          ELSE IF bracket # -1 /\ bracket < brace THEN bracket
                          ELSE brace
        IN  IF json_start # -1
            THEN [found |-> TRUE, text |-> Slice(cleaned, json_start, Len(cleaned))]
            ELSE [found |-> FALSE, text |-> cleaned]
    ELSE [found |-> TRUE, text |-> cleaned]

\* A parser that decodes the text also when it holds neither brace nor bracket.
parse_json_response_any_value(content) ==
    IF ~Truthy(content) THEN [ok |-> FALSE, val |-> <<>>]
    ELSE json_loads(SkipPreamble(StripFences(Strip(content.text))).text)

\* parse_json_response(content): [ok |-> TRUE, val |-> v] for a returned value,
\* [ok |-> FALSE] when it raises json.JSONDecodeError.
parse_json_response(content) ==
    IF ~Truthy(content) THEN [ok |-> FALSE, val |-> <<>>]
    ELSE LET pre == SkipPreamble(StripFences(Strip(content.text))) IN
         IF ~pre.found THEN [ok |-> FALSE, val |-> <<>>]
         ELSE json_loads(pre.text)

(***************************************************************************)
(* json.dumps, as run_with_tools uses it: a dict with one string value.    *)
(***************************************************************************)

\* encoder.py_encode_basestring_ascii, for the characters the texts hold.
RECURSIVE Escape(_)
Escape(s) ==
    IF s = <<>> THEN <<>>
    ELSE (IF s[1] = "\"" THEN <<"\\", "\"">>
          ELSE IF s[1] = "\\" THEN <<"\\", "\\">>
          ELSE IF s[1] = "\n" THEN <<"\\", "n">>
          ELSE IF s[1] = "\t" THEN <<"\\", "t">>
          ELSE IF s[1] = "\r" THEN <<"\\", "r">>
          ELSE <<s[1]>>) \o Escape(Tail(s))

\* json.dumps({key: text}) with the default separators.
json_dumps(key, text) ==
    <<"{", "\"">> \o Escape(key) \o <<"\"", ":", " ", "\"">> \o Escape(text) \o <<"\"", "}">>

(***************************************************************************)
(* The environment of run_with_tools: the callables it is given, the       *)
(* model backend and the tools' behaviour.  A run of plain characters may  *)
(* be written as one element of a text ("Function ", " not found").        *)
(***************************************************************************)

\* max_iterations = 20
max_iterations == 20

\* The most tool calls the backend requests in one response.
MaxCalls == 2

\* functions: the callables supplied (one retrieval tool with one parameter).
KnownTool == "get_section_by_index"
UnknownTool == "no_such_tool"
functions == <<KnownTool>>

\* tool_map = {func.__name__: func for func in functions}
tool_map == {functions[i] : i \in 1..Len(functions)}

\* tool_call.function.arguments texts: one that decodes and binds to the tool's
\* parameter, one that decodes but names no parameter of the tool (the call
\* raises TypeError), one that is cut off (json.loads raises).
ArgsOk == <<"{", "\"", "section_index", "\"", ":", " ", "1", "}">>
ArgsUnbindable == <<"{", "\"", "zzz", "\"", ":", " ", "1", "}">>
ArgsMalformed == <<"{", "\"", "section_index", "\"", ":">>
ArgumentTexts == {ArgsOk, ArgsUnbindable, ArgsMalformed}

\* Whether tool_map[name](**function_args) binds: function_args is a dict whose
\* only key is the tool's parameter.
Binds(function_args) == function_args = json_loads(ArgsOk).val

\* What the called tool does: return a str, return a dict, or raise.
ToolOutcomes == {"str", "dict", "raise"}
ToolText == <<"# Scope", "\n", "\n", "body">>
ToolDictKey == <<"found">>
ToolDictValue == <<"yes">>
\* str(e) of the exception a tool raises, and of the TypeError of a failed call.
ToolErrorText == <<"no ", "\"", "doc", "\"">>
BindErrorText == <<"unexpected keyword argument">>
\* traceback.format_exc()[:200]
TracebackText == <<"Traceback (most recent call last):", "\n">>

NoId == <<>>
CallId(n, j) == <<n, j>>
ToolCall(id, name, arguments) == [id |-> id, name |-> name, arguments |-> arguments]

\* The tool-call lists the backend can request in round n: 1..MaxCalls calls with
\* ids unique in the conversation, any name, any argument text.
CallLists(n) ==
    UNION {
        {[j \in 1..len |-> ToolCall(CallId(n, j), f[j][1], f[j][2])] :
            f \in [1..len -> {KnownTool, UnknownTool} \X ArgumentTexts]}
        : len \in 1..MaxCalls}

\* The plain request: one well-formed call of the known tool.
PlainCalls(n) == <<ToolCall(CallId(n, 1), KnownTool, ArgsOk)>>

\* choice.message.content of the responses.
JsonText == <<"{", "\"", "a", "\"", ":", " ", "1", "}">>
Contents ==
    { None, Str(<<>>), Str(<<"hi">>),
      Str(<<"Sure, here", ":", " ">> \o JsonText \o <<"\n">>),
      Str(FenceJson \o <<"\n">> \o JsonText \o <<"\n">> \o Fence),
      Str(<<"{", "\"", "a", "\"", ":">>) }
PartialContents == {None, Str(<<>>), Str(<<"hi">>)}
ToolRoundContents == {None, Str(<<"hi">>)}

\* A finish_reason the loop does not know.
OtherFinish == {"length"}

Response(finish_reason, content, tool_calls) ==
    [finish_reason |-> finish_reason, content |-> content, tool_calls |-> tool_calls]

NoResponse == Response("", None, <<>>)
PlainResponse(n) == Response("tool_calls", None, PlainCalls(n))

\* The rounds in which the backend's tool-call request is unconstrained; in the
\* other rounds a tool-call request is the plain one.  One round of a run is
\* unconstrained: the loop keeps no state between rounds but iteration and messages.
VariedRounds == {1, max_iterations}

\* return_type values: str and a type that asks for decoding (list, dict).
ReturnTypes == {"str", "list"}

(***************************************************************************)
(* run_with_tools: state                                                   *)
(***************************************************************************)

VARIABLES
    pc,           \* "await": at the loop test; "tools": in the for loop;
                  \* "returned" / "raised": control is back in the caller
    return_type,  \* the parameter return_type
    iteration,    \* the local iteration
    messages,     \* the local messages
    choice,       \* the local choice: the last response
    k,            \* the position in choice.message.tool_calls being executed
    retval,       \* the value returned
    requests,     \* how many times client.chat.completions.create was called
    sent,         \* completion_args of the last request
    invoked,      \* how many times a callable of tool_map was called
    varied        \* whether the backend has used its unconstrained round

rwtVars == <<pc, return_type, iteration, messages, choice, k, retval, requests, sent,
             invoked, varied>>

Prompt == <<"prompt">>

Message(role, content, tool_calls, tool_call_id, name) ==
    [role |-> role, content |-> content, tool_calls |-> tool_calls,
     tool_call_id |-> tool_call_id, name |-> name]

UserMessage(prompt) == Message("user", Str(prompt), <<>>, NoId, "")
\* messages.append(choice.message)
AssistantMessage(resp) == Message("assistant", resp.content, resp.tool_calls, NoId, "")
\* A result message that carries no tool_call_id.
ToolMessageNoId(tool_call, content) == Message("tool", Str(content), <<>>, NoId, tool_call.name)

\* {"role": "tool", "tool_call_id": ..., "name": ..., "content": ...}
ToolMessage(tool_call, content) == Message("tool", Str(content), <<>>, tool_call.id, tool_call.name)

\* A returned value: the content as it is, or a decoded JSON value.
RetContent(content) == [json |-> FALSE, content |-> content, val |-> <<>>]
RetJson(val) == [json |-> TRUE, content |-> None, val |-> val]
NoRet == [json |-> FALSE, content |-> None, val |-> <<>>]

\* completion_args of lines 282-290.
CompletionArgs(msgs) ==
    [keys |-> {"model", "messages", "temperature"}
              \cup (IF Len(functions) > 0 THEN {"tools", "tool_choice"} ELSE {}),
     messages |-> msgs]
NoArgs == [keys |-> {}, messages |-> <<>>]

RwtInit ==
    /\ pc = "await"
    /\ return_type \in ReturnTypes
    /\ iteration = 0
    /\ messages = <<UserMessage(Prompt)>>
    /\ choice = NoResponse
    /\ k = 0
    /\ retval = NoRet
    /\ requests = 0
    /\ sent = NoArgs
    /\ invoked = 0
    /\ varied = FALSE

(***************************************************************************)
(* run_with_tools: steps                                                   *)
(***************************************************************************)

\* A loop test that lets one round too many through.
LoopTestOffByOne == iteration <= max_iterations

\* Line 278: while iteration < max_iterations
LoopTest == iteration < max_iterations

\* Lines 278-293: the loop test passes, iteration += 1, one request is made.
RequestMade ==
    /\ pc = "await"
    /\ LoopTest
    /\ iteration' = iteration + 1
    /\ requests' = requests + 1
    /\ sent' = CompletionArgs(messages)

\* A stop branch that decodes the content whatever return_type is.
StopResultAlwaysParses(content) ==
    IF Truthy(content) /\ parse_json_response(content).ok
    THEN RetJson(parse_json_response(content).val)
    ELSE RetContent(content)

\* Lines 296-304: finish_reason "stop".
StopResult(content) ==
    IF return_type # "str" /\ Truthy(content)
    THEN (IF parse_json_response(content).ok
          THEN RetJson(parse_json_response(content).val)
          ELSE RetContent(content))
    ELSE RetContent(content)

ModelStop ==
    /\ RequestMade
    /\ \E content \in Contents :
        /\ choice' = Response("stop", content, <<>>)
        /\ retval' = StopResult(content)
    /\ pc' = "returned"
    /\ UNCHANGED <<return_type, messages, k, invoked, varied>>

\* Lines 307-308: finish_reason "tool_calls" with a non-empty list.
ModelToolCalls ==
    /\ RequestMade
    /\ \E resp \in {PlainResponse(iteration + 1)} \cup
                   (IF ~varied /\ (iteration + 1) \in VariedRounds
                    THEN {Response("tool_calls", c, calls) :
                            c \in ToolRoundContents, calls \in CallLists(iteration + 1)}
                    ELSE {}) :
        /\ choice' = resp
        /\ varied' = (varied \/ resp # PlainResponse(iteration + 1))
        /\ messages' = Append(messages, AssistantMessage(resp))
    /\ k' = 1
    /\ pc' = "tools"
    /\ UNCHANGED <<return_type, retval, invoked>>

\* A last line that returns choice.message.content as it is.
ContentOrEmptyKeepsNone(content) == RetContent(content)

\* A last line that always returns "".
ContentOrEmptyAlwaysEmpty(content) == RetContent(Str(<<>>))

\* Line 345: choice.message.content if choice.message.content else ""
ContentOrEmpty(content) ==
    IF Truthy(content) THEN RetContent(content) ELSE RetContent(Str(<<>>))

\* Lines 340-345: any other finish_reason, or "tool_calls" with no calls: break.
ModelOther ==
    /\ RequestMade
    /\ \E finish_reason \in OtherFinish \cup {"tool_calls"}, content \in PartialContents :
        /\ choice' = Response(finish_reason, content, <<>>)
        /\ retval' = ContentOrEmpty(content)
    /\ pc' = "returned"
    /\ UNCHANGED <<return_type, messages, k, invoked, varied>>

\* The loop goes on with the next call, or back to the loop test after the last.
NextCall ==
    /\ k' = IF k < Len(choice.tool_calls) THEN k + 1 ELSE 0
    /\ pc' = IF k < Len(choice.tool_calls) THEN "tools" ELSE "await"

\* Lines 321-322, 330
ExecErrorContent(function_name, e) ==
    json_dumps(<<"error">>,
               <<"Error executing ", function_name, ": ">> \o e \o <<"\n">> \o TracebackText)

\* Line 338
NotFoundContent(function_name) ==
    json_dumps(<<"error">>, <<"Function ", function_name, " not found">>)

\* Line 330: the content of the result message of a call that returned.
ResultContent(outcome) ==
    IF outcome = "dict" THEN json_dumps(ToolDictKey, ToolDictValue) ELSE ToolText

\* Line 312: whether json.loads(tool_call.function.arguments) returns.
ArgumentsDecode(tool_call) == json_loads(tool_call.arguments).ok

\* Line 312: json.loads(tool_call.function.arguments) raises; nothing catches it.
ExecToolBadArguments ==
    /\ pc = "tools"
    /\ ~ArgumentsDecode(choice.tool_calls[k])
    /\ pc' = "raised"
    /\ UNCHANGED <<return_type, iteration, messages, choice, k, retval, requests, sent,
                   invoked, varied>>

\* Lines 315-331: the function is in tool_map; it is called, and what it returns
\* or raises becomes the tool message.
ExecToolKnown ==
    /\ pc = "tools"
    /\ LET tool_call == choice.tool_calls[k]
           function_args == json_loads(tool_call.arguments)
       IN  /\ ArgumentsDecode(tool_call)
           /\ tool_call.name \in tool_map
           /\ IF Binds(function_args.val)
              THEN /\ invoked' = invoked + 1
                   /\ \E outcome \in (IF choice = PlainResponse(iteration)
                                      THEN {"str"} ELSE ToolOutcomes) :
                        messages' = Append(messages,
                            ToolMessage(tool_call,
                                IF outcome = "raise"
                                THEN ExecErrorContent(tool_call.name, ToolErrorText)
                                ELSE ResultContent(outcome)))
              ELSE /\ invoked' = invoked
                   /\ messages' = Append(messages,
                        ToolMessage(tool_call, ExecErrorContent(tool_call.name, BindErrorText)))
    /\ NextCall
    /\ UNCHANGED <<return_type, iteration, choice, retval, requests, sent, varied>>

\* Lines 332-339: the function is not in tool_map.
ExecToolUnknown ==
    /\ pc = "tools"
    /\ LET tool_call == choice.tool_calls[k]
       IN  /\ ArgumentsDecode(tool_call)
           /\ tool_call.name \notin tool_map
           /\ messages' = Append(messages,
                             ToolMessage(tool_call, NotFoundContent(tool_call.name)))
    /\ NextCall
    /\ UNCHANGED <<return_type, iteration, choice, retval, requests, sent, invoked, varied>>

\* Lines 278, 345: the loop test fails after max_iterations rounds.
LoopExit ==
    /\ pc = "await"
    /\ ~LoopTest
    /\ retval' = ContentOrEmpty(choice.content)
    /\ pc' = "returned"
    /\ UNCHANGED <<return_type, iteration, messages, choice, k, requests, sent, invoked,
                   varied>>

(***************************************************************************)
(* _current_document_data, and the two functions that set and clear it.    *)
(* Two callers may be inside extract_product_knowledge or                  *)
(* extract_document_template at once, each with its own document; one      *)
(* caller at a time, as process_document calls them, is the special case.  *)
(***************************************************************************)

Callers == {1, 2}

\* Python's None in the slot.
NoDocument == "None"
\* doc_data: the document each caller passes.
doc_data(t) == IF t = 1 THEN "document A" ELSE "document B"

ExtractionKinds == {"extract_product_knowledge", "extract_document_template"}

VARIABLES
    current_document_data,  \* the module global _current_document_data
    epc,                    \* per caller: "idle" (in neither function), "prologue",
                            \* "try", "parse", "except", "finally"
    kind,                   \* per caller: the function it is in
    seen,                   \* per caller: what its retrieval tool calls read
    path,                   \* per caller: how the try block of its last call ended
    overlapped              \* per caller: another call was in progress during its call

slotVars == <<current_document_data, epc, kind, seen, path, overlapped>>

SlotInit ==
    /\ current_document_data = NoDocument
    /\ epc = [t \in Callers |-> "idle"]
    /\ kind \in [Callers -> ExtractionKinds]
    /\ seen = [t \in Callers |-> {}]
    /\ path = [t \in Callers |-> "none"]
    /\ overlapped = [t \in Callers |-> FALSE]

InProgress(t) == epc[t] # "idle"

\* An entry that assigns a local instead of the global.
SlotOnEntryNotGlobal(t) == current_document_data

\* Lines 676-677, 783-784: global _current_document_data; ... = doc_data
SlotOnEntry(t) == doc_data(t)

\* A cleanup that runs only when the try block returned.
SlotOnExitOnlyOnReturn(t) == IF path[t] = "return" THEN NoDocument ELSE current_document_data

\* Lines 776-778, 916-918: finally: _current_document_data = None
SlotOnExit(t) == NoDocument

\* Lines 674-677, 781-784: the call starts and sets the slot.
Enter(t) ==
    /\ epc[t] = "idle"
    /\ \E f \in ExtractionKinds : kind' = [kind EXCEPT ![t] = f]
    /\ current_document_data' = SlotOnEntry(t)
    /\ epc' = [epc EXCEPT ![t] = "prologue"]
    /\ seen' = [seen EXCEPT ![t] = {}]
    /\ path' = [path EXCEPT ![t] = "none"]
    /\ overlapped' = [u \in Callers |->
                        IF u = t THEN \E v \in Callers \ {t} : InProgress(v)
                        ELSE overlapped[u] \/ InProgress(u)]

\* Lines 679-690, 786-798: the structure summary is built from doc_data (a
\* result of extract_document_structure); the try block is entered.
Prologue(t) ==
    /\ epc[t] = "prologue"
    /\ epc' = [epc EXCEPT ![t] = "try"]
    /\ UNCHANGED <<current_document_data, kind, seen, path, overlapped>>

\* Lines 483-486, 512-515, 554-557: a retrieval tool, called by run_with_tools
\* for this caller, reads the slot.
ToolReadsSlot(t) ==
    /\ epc[t] = "try"
    /\ seen' = [seen EXCEPT ![t] = @ \cup {current_document_data}]
    /\ UNCHANGED <<current_document_data, epc, kind, path, overlapped>>

\* Lines 691-767, 799-895: run_with_tools returns.  extract_product_knowledge
\* takes len(result), which raises for None; extract_document_template goes on
\* to decode a str result.
ModelCallReturns(t) ==
    /\ epc[t] = "try"
    /\ \/ /\ kind[t] = "extract_product_knowledge"
          /\ \E content \in {None, Str(<<"hi">>)} :
                IF content.none
                THEN epc' = [epc EXCEPT ![t] = "except"] /\ path' = [path EXCEPT ![t] = "raise"]
                ELSE epc' = [epc EXCEPT ![t] = "finally"] /\ path' = [path EXCEPT ![t] = "return"]
       \/ /\ kind[t] = "extract_document_template"
          /\ epc' = [epc EXCEPT ![t] = "parse"]
          /\ path' = path
    /\ UNCHANGED <<current_document_data, kind, seen, overlapped>>

\* Lines 691, 799: run_with_tools raises (the request fails, or line 312 does).
ModelCallRaises(t) ==
    /\ epc[t] = "try"
    /\ epc' = [epc EXCEPT ![t] = "except"]
    /\ path' = [path EXCEPT ![t] = "raise"]
    /\ UNCHANGED <<current_document_data, kind, seen, overlapped>>

\* Lines 897-905: a str result is decoded with parse_json_response, which may raise.
ParseResult(t) ==
    /\ epc[t] = "parse"
    /\ \E result \in {Str(<<"hi">>), Str(<<"[", "]">>)} :
          IF parse_json_response(result).ok
          THEN epc' = [epc EXCEPT ![t] = "finally"] /\ path' = [path EXCEPT ![t] = "return"]
          ELSE epc' = [epc EXCEPT ![t] = "except"] /\ path' = [path EXCEPT ![t] = "raise"]
    /\ UNCHANGED <<current_document_data, kind, seen, overlapped>>

\* Lines 769-774, 907-914: the handler reports the error and returns.
Except(t) ==
    /\ epc[t] = "except"
    /\ epc' = [epc EXCEPT ![t] = "finally"]
    /\ UNCHANGED <<current_document_data, kind, seen, path, overlapped>>

\* Lines 776-778, 916-918: the finally clause, then the call is over.
Finally(t) ==
    /\ epc[t] = "finally"
    /\ current_document_data' = SlotOnExit(t)
    /\ epc' = [epc EXCEPT ![t] = "idle"]
    /\ UNCHANGED <<kind, seen, path, overlapped>>

(***************************************************************************)
(* function_to_tool_schema, for callables without a docstring.             *)
(***************************************************************************)

\* The most parameters of a callable.
MaxParams == 3

\* Annotations: inspect.Parameter.empty, a plain type, or a subscripted generic
\* with get_args(a) = args; origin "Union" is typing.Union[...] and origin
\* "UnionType" is the X | Y form, an instance of types.UnionType.
Plain(name) == [origin |-> "", name |-> name, args |-> <<>>]
Generic(origin, args) == [origin |-> origin, name |-> "", args |-> args]
Empty == Plain("empty")
NoneType == Plain("NoneType")

Annotations ==
    { Empty, Plain("int"), Plain("Path"),
      Generic("list", <<Plain("int")>>),
      Generic("Union", <<Plain("int"), NoneType>>),
      Generic("Union", <<Plain("int"), Plain("str")>>),
      Generic("Union", <<Plain("int"), Plain("str"), NoneType>>),
      Generic("UnionType", <<Plain("int"), NoneType>>) }

VARIABLES
    sig,      \* sig.parameters of the callable
    schema,   \* the schema built for it
    built,    \* whether function_to_tool_schema has run
    unified   \* whether the interpreter's typing.Union is types.UnionType (3.14 on)

schemaVars == <<sig, schema, built, unified>>

\* typing.get_origin: for X | Y it is types.UnionType, which is typing.Union
\* only on the interpreters that unify the two.
get_origin(annotation) ==
    IF annotation.origin = "UnionType" /\ unified THEN "Union" ELSE annotation.origin

\* Lines 57-80
IsOptional(annotation) ==
    IF annotation = Empty THEN FALSE
    ELSE IF get_origin(annotation) = "Union"
         THEN \E i \in 1..Len(annotation.args) : annotation.args[i] = NoneType
         ELSE FALSE

RECURSIVE GetTypeSchema(_)
\* Lines 83-139: the "type" of the schema, then the "type" of its items, if any.
GetTypeSchema(annotation) ==
    IF annotation = Empty THEN <<"string">>
    ELSE IF annotation = Plain("int") THEN <<"integer">>
    ELSE IF annotation = Plain("float") THEN <<"number">>
    ELSE IF annotation = Plain("bool") THEN <<"boolean">>
    ELSE IF annotation = Plain("str") THEN <<"string">>
    ELSE IF annotation = Plain("dict") THEN <<"object">>
    ELSE IF annotation = Plain("list") THEN <<"array">>
    ELSE IF get_origin(annotation) = "list" THEN
        (IF annotation.args # <<>> THEN <<"array">> \o GetTypeSchema(annotation.args[1])
         ELSE <<"array">>)
    ELSE IF get_origin(annotation) = "Union" THEN
        LET non_none_types == SelectSeq(annotation.args, LAMBDA a : a # NoneType)
        IN  GetTypeSchema(non_none_types[1])
    ELSE <<"string">>

ParamNames == <<"a", "b", "c", "d", "e">>
Param(name, annotation, has_default) ==
    [name |-> name, annotation |-> annotation, has_default |-> has_default]

\* sig.parameters of a callable: an optional self, then n parameters with the
\* annotations and defaults f gives.
Signature(n, f, with_self) ==
    (IF with_self THEN <<Param("self", Empty, FALSE)>> ELSE <<>>)
    \o [i \in 1..n |-> Param(ParamNames[i], f[i][1], f[i][2])]

\* Line 233
IsRequired(param) == ~param.has_default /\ ~IsOptional(param.annotation)

\* Lines 227-230: one entry of properties.
Property(param) ==
    [name |-> param.name,
     schema |-> GetTypeSchema(param.annotation),
     description |-> <<"The ", param.name, " parameter">>]

RECURSIVE BuildParameters(_, _, _)
\* Lines 220-234: the loop over sig.parameters, from the parameter at i on.
BuildParameters(params, properties, required) ==
    IF params = <<>> THEN [properties |-> properties, required |-> required]
    ELSE LET param == Head(params) IN
         IF param.name = "self" THEN BuildParameters(Tail(params), properties, required)
         ELSE BuildParameters(Tail(params),
                              Append(properties, Property(param)),
                              IF IsRequired(param) THEN Append(required, param.name)
                              ELSE required)

\* Lines 198-256: the "parameters" of the tool schema.
function_to_tool_schema(params) == BuildParameters(params, <<>>, <<>>)

NoSchema == [properties |-> <<>>, required |-> <<>>]

SchemaInit ==
    /\ \E n \in 0..MaxParams, with_self \in BOOLEAN :
          \E f \in [1..n -> Annotations \X BOOLEAN] : sig = Signature(n, f, with_self)
    /\ schema = NoSchema
    /\ built = FALSE
    /\ unified \in BOOLEAN

BuildSchema ==
    /\ ~built
    /\ schema' = function_to_tool_schema(sig)
    /\ built' = TRUE
    /\ UNCHANGED <<sig, unified>>

(***************************************************************************)
(* parse_json_response on model texts: optional leading whitespace, an     *)
(* optional narration, a body with or without a markdown fence around it,  *)
(* an optional trailing narration.  These texts are written character by   *)
(* character.                                                              *)
(***************************************************************************)

\* The length of the longest body: longer than the excerpt of line 193.
LongLen == 120

\* cleaned[:100]
ExcerptLen == 100

Leads == {<<>>, <<" ">>, <<"\n", " ">>}
NarrationsBefore == {<<>>, <<"O", "k", ":", " ">>, <<"s", "e", "e", " ", "[", "1", "]", ":", " ">>}
NarrationsAfter == {<<>>, <<"\n">>, <<" ", "o", "k", ".">>}
\* How the body is fenced: not at all; in a json fence, closed or not, with a
\* narration inside it, or with a generic fence around it; in a generic fence,
\* closed or not, with a language tag, with the closing fence on the last line
\* of the body, with the opening fence on its first line, or all on one line.
FenceKinds ==
    {"none", "json", "json unclosed", "plain", "json narrated", "json in plain",
     "plain tagged", "plain tight", "plain unclosed", "plain one line", "plain open tight"}
NarrationInside == <<"O", "k", ":", " ">>
LanguageTag == <<"j", "s">>

\* Bodies: json says whether the text is a JSON object or array, val is its
\* value (the text without the whitespace between its tokens).
Body(text, json, val) == [text |-> text, json |-> json, val |-> val]
LongText == [i \in 1..LongLen |-> "x"]
Bodies ==
    { Body(<<>>, FALSE, <<>>),
      Body(<<"{", "\"", "a", "\"", ":", " ", "1", "}">>, TRUE, <<"{", "\"", "a", "\"", ":", "1", "}">>),
      Body(<<"[", "1", ",", " ", "2", "]">>, TRUE, <<"[", "1", ",", "2", "]">>),
      Body(<<"{", "\"", "a", "\"", ":", "[", "]", "}">>, TRUE, <<"{", "\"", "a", "\"", ":", "[", "]", "}">>),
      Body(<<"{", "\"", "a", "\"", ":">>, FALSE, <<>>),
      Body(<<"h", "i">>, FALSE, <<>>),
      Body(<<"4", "2">>, FALSE, <<>>),
      Body(<<"{", "\n", "\"", "a", "\"", ":", " ", "1", "}">>, TRUE, <<"{", "\"", "a", "\"", ":", "1", "}">>),
      Body(<<"\"", "h", "i", "\"">>, FALSE, <<>>),
      Body(<<"t", "r", "u", "e">>, FALSE, <<>>),
      Body(<<"n", "u", "l", "l">>, FALSE, <<>>),
      Body(LongText, FALSE, <<>>) }

\* The text the model returned, from its parts.
Fenced(fence, text) ==
    IF fence = "json" THEN FenceJson \o <<"\n">> \o text \o <<"\n">> \o Fence
    ELSE IF fence = "json unclosed" THEN FenceJson \o <<"\n">> \o text
    ELSE IF fence = "plain" THEN Fence \o <<"\n">> \o text \o <<"\n">> \o Fence
    ELSE IF fence = "json narrated"
    THEN FenceJson \o <<"\n">> \o NarrationInside \o text \o <<"\n">> \o Fence
    ELSE IF fence = "json in plain"
    THEN Fence \o <<"\n">> \o FenceJson \o <<"\n">> \o text \o <<"\n">> \o Fence
         \o <<"\n">> \o Fence
    ELSE IF fence = "plain tagged"
    THEN Fence \o LanguageTag \o <<"\n">> \o text \o <<"\n">> \o Fence
    ELSE IF fence = "plain tight" THEN Fence \o <<"\n">> \o text \o Fence
    ELSE IF fence = "plain unclosed" THEN Fence \o <<"\n">> \o text
    ELSE IF fence = "plain one line" THEN Fence \o text \o Fence
    ELSE IF fence = "plain open tight" THEN Fence \o text \o <<"\n">> \o Fence
    ELSE text
ModelText(parts) ==
    parts.lead \o parts.before \o Fenced(parts.fence, parts.body.text) \o parts.after

\* A message that carries the whole remaining text.
ParseErrorMessageWholeText(content) ==
    IF ~Truthy(content) THEN <<"Empty content">>
    ELSE LET pre == SkipPreamble(StripFences(Strip(content.text))) IN
         IF ~pre.found
         THEN <<"No JSON found in response. Content starts with: ">> \o pre.text
         ELSE <<"json.loads">>

\* Lines 155-156, 193, 195: the message of the json.JSONDecodeError raised.
ParseErrorMessage(content) ==
    IF ~Truthy(content) THEN <<"Empty content">>
    ELSE LET pre == SkipPreamble(StripFences(Strip(content.text))) IN
         IF ~pre.found
         THEN <<"No JSON found in response. Content starts with: ">>
              \o Slice(pre.text, 0, ExcerptLen)
         ELSE <<"json.loads">>

VARIABLES
    parts,    \* how the text given to parse_json_response is made up
    content_arg,  \* the argument content: None or a str
    parsed    \* the outcome of the call

parseVars == <<parts, content_arg, parsed>>

NotParsed == [called |-> FALSE, ok |-> FALSE, val |-> <<>>, msg |-> <<>>]

ParseInit ==
    /\ \E lead \in Leads, before \in NarrationsBefore, fence \in FenceKinds,
          body \in Bodies, after \in NarrationsAfter, absent \in BOOLEAN :
          /\ parts = [lead |-> lead, before |-> before, fence |-> fence,
                      body |-> body, after |-> after, absent |-> absent]
          /\ content_arg = IF absent THEN None ELSE Str(ModelText(parts))
    /\ parsed = NotParsed

\* Lines 142-195: one call.
Parse ==
    /\ ~parsed.called
    /\ parsed' = [called |-> TRUE,
                  ok |-> parse_json_response(content_arg).ok,
                  val |-> parse_json_response(content_arg).val,
                  msg |-> IF parse_json_response(content_arg).ok THEN <<>>
                          ELSE ParseErrorMessage(content_arg)]
    /\ UNCHANGED <<parts, content_arg>>

(***************************************************************************)
(* extract_document_structure.  A document is the sequence of its          *)
(* paragraphs, each with a style name and a text, and the sequence of its  *)
(* tables.  Style names are written word by word, texts character by       *)
(* character.                                                              *)
(***************************************************************************)

\* The most paragraphs of a document.
MaxParas == 3

\* pat in s
Contains(s, pat) == Find(s, pat, 0) # -1

RECURSIVE Join(_, _)
\* sep.join(strs)
Join(sep, strs) ==
    IF strs = <<>> THEN <<>>
    ELSE IF Len(strs) = 1 THEN strs[1]
    ELSE strs[1] \o sep \o Join(sep, Tail(strs))

Paragraph(style, text) == [style |-> style, text |-> text]

StyleNormal == <<"Normal">>
StyleHeading(n) == <<"Heading", " ">> \o n
StyleTocHeading == <<"TOC", " ", "Heading">>

TextScope == <<"S", "c", "o", "p", "e">>
TextTerms == <<"T", "e", "r", "m", "s", " ">>
TextScoped == <<"s", "c", "o", "p", "e", "d">>

\* The paragraphs a document is made of: blank and non-blank body paragraphs,
\* headings of the levels the code tells apart, a heading style it does not
\* know, a two-digit heading style, and a heading paragraph without text.
ParagraphKinds ==
    { Paragraph(StyleNormal, <<" ">>),
      Paragraph(StyleNormal, <<" ", "a", "a">>),
      Paragraph(StyleNormal, <<"b", "\n", "b">>),
      Paragraph(StyleHeading(<<"1">>), TextScope),
      Paragraph(StyleHeading(<<"2">>), TextTerms),
      Paragraph(StyleHeading(<<"3">>), TextScoped),
      Paragraph(StyleHeading(<<"4">>), TextTerms),
      Paragraph(StyleHeading(<<"1", "0">>), TextScoped),
      Paragraph(StyleTocHeading, TextScope),
      Paragraph(StyleHeading(<<"1">>), <<" ">>) }

\* doc.tables: no table, or one table of one row with two cells.
OneRowTable == << << <<"x">>, <<"y">> >> >>
TableLists == {<<>>, <<OneRowTable>>}

\* Where the tables lie among the paragraphs of the body, in document order:
\* for each of n tables the number of paragraphs, of m, that come before it.
TablePlaces(n, m) ==
    {places \in [1..n -> 0..m] : \A i, j \in 1..n : i < j => places[i] <= places[j]}

\* Lines 401-411
HeadingLevel(style) ==
    IF Contains(style, StyleHeading(<<"1">>)) THEN 1
    ELSE IF Contains(style, StyleHeading(<<"2">>)) THEN 2
    ELSE IF Contains(style, StyleHeading(<<"3">>)) THEN 3
    ELSE IF Contains(style, StyleHeading(<<"4">>)) THEN 4
    ELSE 5

\* Line 381
IntroductionSection == [index |-> 0, heading |-> <<"Introduction">>, level |-> 0, content |-> <<>>]

\* A save that does not look at the content.
SaveSectionAlways(sections, current_section) ==
    [i \in DOMAIN sections \cup {current_section.index} |->
        IF i = current_section.index
        THEN [heading |-> current_section.heading,
              level |-> current_section.level,
              content |-> Join(<<"\n">>, current_section.content)]
        ELSE sections[i]]

\* Lines 392-397, 429-435: the section map with current_section saved in it,
\* when current_section has content.
SaveSection(sections, current_section) ==
    IF current_section.content # <<>>
    THEN [i \in DOMAIN sections \cup {current_section.index} |->
            IF i = current_section.index
            THEN [heading |-> current_section.heading,
                  level |-> current_section.level,
                  content |-> Join(<<"\n">>, current_section.content)]
            ELSE sections[i]]
    ELSE sections

RECURSIVE ScanParagraphs(_, _, _, _, _)
\* Lines 383-435: the loop over doc.paragraphs, and the save after it.
ScanParagraphs(paras, structure, sections, current_section, section_index) ==
    IF paras = <<>>
    THEN [structure |-> structure,
          sections |-> SaveSection(sections, current_section),
          section_index |-> section_index]
    ELSE LET para == Head(paras)
             text == Strip(para.text)
         IN  IF Strip(para.text) = <<>>
             THEN ScanParagraphs(Tail(paras), structure, sections, current_section, section_index)
             ELSE IF Contains(para.style, <<"Heading">>)
             THEN ScanParagraphs(
                     Tail(paras),
                     Append(structure, [index |-> section_index + 1, heading |-> text,
                                        level |-> HeadingLevel(para.style)]),
                     SaveSection(sections, current_section),
                     [index |-> section_index + 1, heading |-> text,
                      level |-> HeadingLevel(para.style), content |-> <<>>],
                     section_index + 1)
             ELSE ScanParagraphs(
                     Tail(paras), structure, sections,
                     [current_section EXCEPT !.content = Append(@, text)],
                     section_index)

\* Lines 439-443: the text of one table.
TableContent(table) ==
    << <<"[TABLE]">> >>
    \o [r \in 1..Len(table) |-> Join(<<" ", "|", " ">>, table[r])]
    \o << <<"[/TABLE]">> >>

RECURSIVE AddTables(_, _, _)
\* Lines 438-447: each table goes to the section of the last heading, if it has one.
AddTables(tbls, sections, section_index) ==
    IF tbls = <<>> THEN sections
    ELSE AddTables(
            Tail(tbls),
            IF section_index \in DOMAIN sections
            THEN [sections EXCEPT ![section_index].content =
                    @ \o <<"\n", "\n">> \o Join(<<"\n">>, TableContent(Head(tbls)))]
            ELSE sections,
            section_index)

\* Line 451
FullContent(paras) ==
    Join(<<"\n", "\n">>,
         [i \in 1..Len(SelectSeq(paras, LAMBDA q : Strip(q.text) # <<>>)) |->
            SelectSeq(paras, LAMBDA q : Strip(q.text) # <<>>)[i].text])

\* Python's None where a document index is expected.
NoData == [none |-> TRUE, structure |-> <<>>, sections |-> <<>>, full_content |-> <<>>]

\* Lines 352-461: the dict returned, without the metadata of the file.
extract_document_structure(paras, tbls) ==
    LET scanned == ScanParagraphs(paras, <<>>, <<>>, IntroductionSection, 0) IN
    [none |-> FALSE,
     structure |-> scanned.structure,
     sections |-> AddTables(tbls, scanned.sections, scanned.section_index),
     full_content |-> FullContent(paras)]

(***************************************************************************)
(* The retrieval tools.  data is _current_document_data: NoData for None.  *)
(* A result is [raised |-> FALSE, text |-> the str returned], or           *)
(* [raised |-> TRUE] when the call raises.                                 *)
(***************************************************************************)

\* The most indices in a request of get_multiple_sections.
MaxIndices == 2

Returned(text) == [raised |-> FALSE, text |-> text]
Raised == [raised |-> TRUE, text |-> <<>>]

DigitChars == <<"0", "1", "2", "3", "4", "5", "6", "7", "8", "9">>

RECURSIVE NatToStr(_)
NatToStr(n) ==
    IF n < 10 THEN <<DigitChars[n + 1]>>
    ELSE NatToStr(n \div 10) \o <<DigitChars[(n % 10) + 1]>>

\* str(i) of an int
IntToStr(i) == IF i < 0 THEN <<"-">> \o NatToStr(-i) ELSE NatToStr(i)

RECURSIVE SortedDescending(_)
\* The ints of a set from the greatest down.
SortedDescending(S) ==
    IF S = {} THEN <<>>
    ELSE LET top == CHOOSE x \in S : \A y \in S : y <= x
         IN  <<top>> \o SortedDescending(S \ {top})

RECURSIVE Sorted(_)
\* sorted(S) of a set of ints
Sorted(S) == IF S = {} THEN <<>> ELSE <<MinOf(S)>> \o Sorted(S \ {MinOf(S)})

\* str.lower(), for the letters of the texts.
LowerChar(c) ==
    CASE c = "S" -> "s" [] c = "T" -> "t" [] c = "E" -> "e" [] c = "R" -> "r"
      [] c = "M" -> "m" [] c = "C" -> "c" [] c = "O" -> "o" [] c = "P" -> "p"
      [] OTHER -> c
Lower(s) == [i \in 1..Len(s) |-> LowerChar(s[i])]

NoDocumentLoaded == <<"Error: No document is currently loaded">>

\* Lines 494, 531, 563: f"# {section['heading']}\n\n{section['content']}"
FormatSection(section) == <<"#", " ">> \o section.heading \o <<"\n", "\n">> \o section.content

\* Lines 468-494
get_section_by_index(data, section_index) ==
    IF data.none THEN Returned(NoDocumentLoaded)
    ELSE IF section_index \notin DOMAIN data.sections
    THEN LET keys == Sorted(DOMAIN data.sections)
             available == Join(<<",", " ">>, [i \in 1..Len(keys) |-> IntToStr(keys[i])])
         IN  Returned(<<"Error: Section ">> \o IntToStr(section_index)
                      \o <<" not found. Available sections: ">> \o available)
    ELSE Returned(FormatSection(data.sections[section_index]))

\* Lines 518-522
Matches(data, heading_keyword) ==
    SelectSeq(data.structure,
              LAMBDA item : Contains(Lower(item.heading), Lower(heading_keyword)))

\* A search that takes the first of several matches.
get_section_by_heading_first(data, heading_keyword) ==
    IF data.none THEN Returned(NoDocumentLoaded)
    ELSE LET matches == Matches(data, heading_keyword) IN
         IF matches = <<>>
         THEN Returned(<<"Error: No sections found matching ", "'">> \o heading_keyword \o <<"'">>)
         ELSE IF matches[1].index \in DOMAIN data.sections
         THEN Returned(FormatSection(data.sections[matches[1].index]))
         ELSE Raised

\* Lines 497-536
get_section_by_heading(data, heading_keyword) ==
    IF data.none THEN Returned(NoDocumentLoaded)
    ELSE LET matches == Matches(data, heading_keyword) IN
         IF matches = <<>>
         THEN Returned(<<"Error: No sections found matching ", "'">> \o heading_keyword \o <<"'">>)
         ELSE IF Len(matches) = 1
         THEN (IF matches[1].index \in DOMAIN data.sections
               THEN Returned(FormatSection(data.sections[matches[1].index]))
               ELSE Raised)
         ELSE LET match_list ==
                    Join(<<"\n">>,
                         [i \in 1..Len(matches) |->
                            <<" ", " ">> \o IntToStr(matches[i].index) \o <<".", " ">>
                            \o matches[i].heading])
              IN  Returned(<<"Multiple sections found matching ", "'">> \o heading_keyword
                           \o <<"'", ":", "\n">> \o match_list
                           \o <<"\n", "\n", "Use get_section_by_index() to retrieve a specific one.">>)

\* A batch fetch that leaves out the indices it does not find.
get_multiple_sections_found_only(data, section_indices) ==
    IF data.none THEN Returned(NoDocumentLoaded)
    ELSE LET found == SelectSeq(section_indices, LAMBDA i : i \in DOMAIN data.sections) IN
         Returned(Join(<<"\n", "-", "-", "-", "\n", "\n">>,
                       [j \in 1..Len(found) |->
                          FormatSection(data.sections[found[j]]) \o <<"\n">>]))

\* Lines 539-570
get_multiple_sections(data, section_indices) ==
    IF data.none THEN Returned(NoDocumentLoaded)
    ELSE Returned(
            Join(<<"\n", "-", "-", "-", "\n", "\n">>,
                 [j \in 1..Len(section_indices) |->
                    IF section_indices[j] \in DOMAIN data.sections
                    THEN FormatSection(data.sections[section_indices[j]]) \o <<"\n">>
                    ELSE <<"[Section ">> \o IntToStr(section_indices[j])
                         \o <<" not found]", "\n">>]))

\* The arguments the model passes to the tools.
IndexArguments == -1..(MaxParas + 1)
Keywords ==
    { <<>>, <<"s", "c", "o", "p", "e">>, <<"T", "E", "R", "M">>, <<"e">>, <<"z", "z">>,
      <<"s", "c", "o", "p", "e", "d">> }
IndexLists == UNION {[1..n -> 0..MaxParas] : n \in 0..MaxIndices}

VARIABLES
    paragraphs,     \* doc.paragraphs
    tables,         \* doc.tables
    table_after,    \* for each table, the number of paragraphs that come before it
    document_data,  \* the dict extract_document_structure returned, once it has
    loaded,         \* whether _current_document_data is document_data (or None)
    tool_out        \* the last retrieval tool call: its name, argument and result

docVars == <<paragraphs, tables, table_after, document_data, loaded, tool_out>>

NoToolOut == [tool |-> "", arg |-> <<>>, result |-> Returned(<<>>)]
ToolOut(tool, arg, result) == [tool |-> tool, arg |-> arg, result |-> result]

DocInit ==
    /\ \E n \in 0..MaxParas : paragraphs \in [1..n -> ParagraphKinds]
    /\ tables \in TableLists
    /\ table_after \in TablePlaces(Len(tables), Len(paragraphs))
    /\ document_data = NoData
    /\ loaded = FALSE
    /\ tool_out = NoToolOut

\* Lines 352-461
ExtractStructure ==
    /\ document_data.none
    /\ document_data' = extract_document_structure(paragraphs, tables)
    /\ UNCHANGED <<paragraphs, tables, table_after, loaded, tool_out>>

\* Lines 676-677, 783-784: an extraction function puts the dict in the slot.
LoadDocument ==
    /\ ~document_data.none /\ ~loaded /\ tool_out = NoToolOut
    /\ loaded' = TRUE
    /\ UNCHANGED <<paragraphs, tables, table_after, document_data, tool_out>>

\* _current_document_data as the tools see it.
SlotData == IF loaded THEN document_data ELSE NoData

\* A tool that ends with the slot set to None.
SlotClearedByTool(data) == NoData

\* Lines 468-570: the slot after a call of a retrieval tool, from the slot
\* before it.  The tools assign neither _current_document_data nor a key or an
\* item of the dict it names, and the strings they build are new objects.
SlotAfterTool(data) == data

\* The effect of a tool call on the slot and on the dict put in it.
ToolLeavesSlot ==
    LET after == SlotAfterTool(SlotData) IN
    /\ loaded' = ~after.none
    /\ document_data' = IF loaded THEN after ELSE document_data

\* Lines 468-494: one call, on the index of the document extracted.
CallGetSectionByIndex ==
    /\ ~document_data.none /\ tool_out = NoToolOut
    /\ \E section_index \in IndexArguments :
          tool_out' = ToolOut("get_section_by_index", section_index,
                              get_section_by_index(SlotData, section_index))
    /\ ToolLeavesSlot
    /\ UNCHANGED <<paragraphs, tables, table_after>>

\* Lines 497-536: one call, on the index of the document extracted.
CallGetSectionByHeading ==
    /\ ~document_data.none /\ tool_out = NoToolOut
    /\ \E heading_keyword \in Keywords :
          tool_out' = ToolOut("get_section_by_heading", heading_keyword,
                              get_section_by_heading(SlotData, heading_keyword))
    /\ ToolLeavesSlot
    /\ UNCHANGED <<paragraphs, tables, table_after>>

\* Lines 539-570: one call, on the index of the document extracted.
CallGetMultipleSections ==
    /\ ~document_data.none /\ tool_out = NoToolOut
    /\ \E section_indices \in IndexLists :
          tool_out' = ToolOut("get_multiple_sections", section_indices,
                              get_multiple_sections(SlotData, section_indices))
    /\ ToolLeavesSlot
    /\ UNCHANGED <<paragraphs, tables, table_after>>

(***************************************************************************)
(* main: the directory mode                                                *)
(*                                                                         *)
(* A file of the scanned directory is the rank of its path among the paths *)
(* of the directory, so that sorted() is the ascending order of the ranks. *)
(* process_document is one step: what happens inside it is one of the      *)
(* outcomes below, and the step is its return.  The exceptions are of      *)
(* class Exception.                                                        *)
(***************************************************************************)

MaxFiles == 3

\* The two programs: knowledge_base_builder_kimi.py and knowledge_base_builder.py.
Programs == {"kimi", "auggie"}

\* A directory: its .docx files, and those of them whose name starts with "~$".
Directories ==
    {[docx |-> fs, temporary |-> ts] : fs \in SUBSET (1..MaxFiles), ts \in SUBSET (1..MaxFiles)}

\* Lines 1226-1244.
find_docx_files(directory) == Sorted(directory.docx \ directory.temporary)

\* What the body of process_document does: it runs to its end, the reading of
\* the document raises, or a later statement raises.
Outcomes == {"completed", "read raises", "later raises"}

\* Lines 1247-1313: return True at the end of the body, return False in the
\* handler of the inner try and in the handler of the outer try.
process_document(outcome) ==
    CASE outcome = "completed" -> TRUE
      [] outcome = "read raises" -> FALSE
      [] outcome = "later raises" -> FALSE

\* A count that goes up with every call.
CountEveryCall(count, success) == count + 1

\* Lines 1448-1449 and 1457-1458: if success: processed += 1
CountSuccess(count, success) == IF success THEN count + 1 ELSE count

\* The answers to the first prompt (line 1419): n, e, y, a number, anything
\* else; for knowledge_base_builder.py also the flag --yes, which skips the prompt.
Responses ==
    [kind : {"n", "e", "y", "other", "--yes"}, num : {0}]
        \cup [kind : {"digit"}, num : 0..(MaxFiles + 1)]

\* The answers to the prompt for one document.
Confirms == {"y", "n", "q"}

VARIABLES
    program,        \* which of the two programs runs
    docx_files,     \* the result of find_docx_files
    approve_each,   \* the user confirms each document
    doc_index,      \* the number of documents the loop is done with
    process_calls,  \* the calls of process_document so far: document and result
    selected,       \* the documents the user has selected so far
    processed,      \* processed (successful in knowledge_base_builder.py)
    reported,       \* the count of successes printed at the end, -1 before
    bpc             \* where main is

batchVars == <<program, docx_files, approve_each, doc_index, process_calls, selected,
               processed, reported, bpc>>

NotReported == -1

BatchInit ==
    /\ program \in Programs
    /\ \E directory \in Directories : docx_files = find_docx_files(directory)
    /\ approve_each = FALSE
    /\ doc_index = 0
    /\ process_calls = <<>>
    /\ selected = <<>>
    /\ processed = 0
    /\ reported = NotReported
    /\ bpc = "scan"

ProcessCall(doc, outcome) == [doc |-> doc, result |-> process_document(outcome)]

\* Lines 1410-1412: no .docx files.
NoFiles ==
    /\ bpc = "scan"
    /\ docx_files = <<>>
    /\ bpc' = "done"
    /\ UNCHANGED <<program, docx_files, approve_each, doc_index, process_calls, selected,
                   processed, reported>>

\* Lines 1419-1443 and 1452-1454; knowledge_base_builder.py lines 638-663.
AskUser ==
    /\ bpc = "scan"
    /\ docx_files # <<>>
    /\ \E response \in Responses :
          LET cancel == /\ bpc' = "done"
                        /\ UNCHANGED <<approve_each, selected>>
              each   == /\ bpc' = "loop"
                        /\ approve_each' = TRUE
                        /\ UNCHANGED selected
              all    == /\ bpc' = "loop"
                        /\ approve_each' = FALSE
                        /\ selected' = docx_files
          IN  IF program = "kimi"
              THEN /\ response.kind # "--yes"
                   /\ CASE response.kind = "n" -> cancel
                        [] response.kind = "digit" ->
                              IF 1 <= response.num /\ response.num <= Len(docx_files)
                              THEN /\ bpc' = "one"
                                   /\ selected' = <<docx_files[response.num]>>
                                   /\ UNCHANGED approve_each
                              ELSE cancel
                        [] response.kind = "e" -> each
                        [] OTHER -> all
              ELSE CASE response.kind \in {"--yes", "y"} -> all
                     [] response.kind = "e" -> each
                     [] OTHER -> cancel
    /\ UNCHANGED <<program, docx_files, doc_index, process_calls, processed, reported>>

\* Lines 1426-1437: only the document of the number entered.
ProcessOne ==
    /\ bpc = "one"
    /\ \E outcome \in Outcomes :
          LET call == ProcessCall(selected[1], outcome) IN
          /\ process_calls' = Append(process_calls, call)
          /\ reported' = IF call.result THEN 1 ELSE 0
    /\ bpc' = "done"
    /\ UNCHANGED <<program, docx_files, approve_each, doc_index, selected, processed>>

\* Lines 1444-1446; knowledge_base_builder.py lines 665-679: the prompt for the
\* next document.
ConfirmNext ==
    /\ bpc = "loop"
    /\ approve_each
    /\ doc_index < Len(docx_files)
    /\ \E confirm \in Confirms :
          IF confirm = "y"
          THEN /\ selected' = Append(selected, docx_files[doc_index + 1])
               /\ bpc' = "process"
               /\ UNCHANGED doc_index
          ELSE IF confirm = "q" /\ program = "auggie"
          THEN /\ bpc' = "summary"
               /\ UNCHANGED <<selected, doc_index>>
          ELSE /\ doc_index' = doc_index + 1
               /\ UNCHANGED <<selected, bpc>>
    /\ UNCHANGED <<program, docx_files, approve_each, process_calls, processed, reported>>

\* Lines 1447-1449 and 1455-1458; knowledge_base_builder.py lines 685-688.
ProcessNext ==
    /\ \/ bpc = "process"
       \/ bpc = "loop" /\ ~approve_each /\ doc_index < Len(docx_files)
    /\ \E outcome \in Outcomes :
          LET call == ProcessCall(docx_files[doc_index + 1], outcome) IN
          /\ process_calls' = Append(process_calls, call)
          /\ processed' = CountSuccess(processed, call.result)
    /\ doc_index' = doc_index + 1
    /\ bpc' = "loop"
    /\ UNCHANGED <<program, docx_files, approve_each, selected, reported>>

\* Lines 1450 and 1460; knowledge_base_builder.py lines 690-701.
Summary ==
    /\ \/ bpc = "summary"
       \/ bpc = "loop" /\ doc_index = Len(docx_files)
    /\ reported' = processed
    /\ bpc' = "done"
    /\ UNCHANGED <<program, docx_files, approve_each, doc_index, process_calls, selected,
                   processed>>

(***************************************************************************)
(* save_product_knowledge, called again and again for one product.  The    *)
(* files of the product are overview.md and one file per reference         *)
(* material.  A timestamp is doc_metadata['modified']: the isoformat text  *)
(* of a time, of fixed width, written here with two digits.                *)
(***************************************************************************)

\* The most calls of save_product_knowledge in a run.
MaxSaves == 3

\* doc_metadata['modified']: None, or the text of a time.
Timestamps == {<<"0", "8">>, <<"0", "9">>, <<"1", "0">>, <<"1", "1">>}
ModifiedValues == {None} \cup {Str(t) : t \in Timestamps}

\* The titles of the reference materials a call may carry.
Titles == {"Guide", "Form"}

\* The place of a digit in the order of the characters.
Ord(c) == CHOOSE n \in 0..9 : DigitChars[n + 1] = c

RECURSIVE StrLess(_, _)
\* a < b for two str: the order of Python, character by character.
StrLess(a, b) ==
    IF b = <<>> THEN FALSE
    ELSE IF a = <<>> THEN TRUE
    ELSE IF Head(a) # Head(b) THEN Ord(Head(a)) < Ord(Head(b))
    ELSE StrLess(Tail(a), Tail(b))

\* A test that skips the update only for an older document.
ExistingIsNewer(existing_date, new_date) == StrLess(new_date, existing_date)

\* Line 1040: existing_date >= new_date
ExistingIsUpToDate(existing_date, new_date) == ~StrLess(existing_date, new_date)

\* overview.md: whether it exists, the value of its source_document_modified
\* line (None when it has no such line), and the call that wrote it.
NoFile == [exists |-> FALSE, modified |-> None, saved_by |-> 0]
OverviewFile(modified, n) == [exists |-> TRUE, modified |-> modified, saved_by |-> n]

\* Lines 1029-1043
ShouldUpdate(file, modified) ==
    IF file.exists /\ Truthy(modified)
    THEN ~(~file.modified.none /\ ExistingIsUpToDate(file.modified.text, modified.text))
    ELSE TRUE

VARIABLES
    overview,          \* overview.md of the product
    reference_files,   \* for each title, the call that wrote its file last (0: no file)
    saves,             \* the number of calls so far
    last_save,         \* the arguments of the last call
    all_dated          \* every call so far carried a timestamp

saveVars == <<overview, reference_files, saves, last_save, all_dated>>

NoSave == [modified |-> None, reference_materials |-> {}]

SaveInit ==
    /\ overview = NoFile
    /\ reference_files = [t \in Titles |-> 0]
    /\ saves = 0
    /\ last_save = NoSave
    /\ all_dated = TRUE

\* Lines 1016-1112: one call.
SaveProductKnowledge ==
    /\ saves < MaxSaves
    /\ \E modified \in ModifiedValues, reference_materials \in SUBSET Titles :
          /\ overview' = IF ShouldUpdate(overview, modified)
                         THEN OverviewFile(modified, saves + 1)
                         ELSE overview
          /\ reference_files' = [t \in Titles |->
                IF t \in reference_materials THEN saves + 1 ELSE reference_files[t]]
          /\ last_save' = [modified |-> modified, reference_materials |-> reference_materials]
          /\ all_dated' = (all_dated /\ Truthy(modified))
    /\ saves' = saves + 1

(***************************************************************************)
(* Specifications                                                          *)
(***************************************************************************)

vars == <<rwtVars, slotVars, schemaVars, parseVars, docVars, batchVars, saveVars>>

\* The parts of the state a specification does not use stay as they are here.
RwtUnused ==
    /\ pc = "unused" /\ return_type = "str" /\ iteration = 0 /\ messages = <<>>
    /\ choice = NoResponse /\ k = 0 /\ retval = NoRet /\ requests = 0 /\ sent = NoArgs
    /\ invoked = 0 /\ varied = FALSE
SlotUnused ==
    /\ current_document_data = NoDocument
    /\ epc = [t \in Callers |-> "unused"]
    /\ kind = [t \in Callers |-> "extract_product_knowledge"]
    /\ seen = [t \in Callers |-> {}]
    /\ path = [t \in Callers |-> "none"]
    /\ overlapped = [t \in Callers |-> FALSE]
SchemaUnused == sig = <<>> /\ schema = NoSchema /\ built = FALSE /\ unified = FALSE
ParseUnused ==
    /\ parts = [lead |-> <<>>, before |-> <<>>, fence |-> "none",
                body |-> Body(<<>>, FALSE, <<>>), after |-> <<>>, absent |-> TRUE]
    /\ content_arg = None
    /\ parsed = NotParsed
DocUnused ==
    /\ paragraphs = <<>> /\ tables = <<>> /\ table_after = <<>> /\ document_data = NoData /\ loaded = FALSE
    /\ tool_out = NoToolOut
BatchUnused ==
    /\ program = "kimi" /\ docx_files = <<>> /\ approve_each = FALSE /\ doc_index = 0
    /\ process_calls = <<>> /\ selected = <<>> /\ processed = 0
    /\ reported = NotReported /\ bpc = "unused"
SaveUnused ==
    /\ overview = NoFile /\ reference_files = <<>> /\ saves = MaxSaves
    /\ last_save = NoSave /\ all_dated = TRUE

\* One invocation of run_with_tools.
Init == RwtInit /\ SlotUnused /\ SchemaUnused /\ ParseUnused /\ DocUnused /\ BatchUnused /\ SaveUnused
Next ==
    \/ ModelStop /\ UNCHANGED <<slotVars, schemaVars, parseVars, docVars, batchVars, saveVars>>
    \/ ModelToolCalls /\ UNCHANGED <<slotVars, schemaVars, parseVars, docVars, batchVars, saveVars>>
    \/ ModelOther /\ UNCHANGED <<slotVars, schemaVars, parseVars, docVars, batchVars, saveVars>>
    \/ ExecToolBadArguments /\ UNCHANGED <<slotVars, schemaVars, parseVars, docVars, batchVars, saveVars>>
    \/ ExecToolKnown /\ UNCHANGED <<slotVars, schemaVars, parseVars, docVars, batchVars, saveVars>>
    \/ ExecToolUnknown /\ UNCHANGED <<slotVars, schemaVars, parseVars, docVars, batchVars, saveVars>>
    \/ LoopExit /\ UNCHANGED <<slotVars, schemaVars, parseVars, docVars, batchVars, saveVars>>
Spec == Init /\ [][Next]_vars

\* Callers of the extraction functions.
SlotSpecInit == SlotInit /\ RwtUnused /\ SchemaUnused /\ ParseUnused /\ DocUnused /\ BatchUnused /\ SaveUnused
SlotSpecNext ==
    \E t \in Callers :
        \/ Enter(t) /\ UNCHANGED <<rwtVars, schemaVars, parseVars, docVars, batchVars, saveVars>>
        \/ Prologue(t) /\ UNCHANGED <<rwtVars, schemaVars, parseVars, docVars, batchVars, saveVars>>
        \/ ToolReadsSlot(t) /\ UNCHANGED <<rwtVars, schemaVars, parseVars, docVars, batchVars, saveVars>>
        \/ ModelCallReturns(t) /\ UNCHANGED <<rwtVars, schemaVars, parseVars, docVars, batchVars, saveVars>>
        \/ ModelCallRaises(t) /\ UNCHANGED <<rwtVars, schemaVars, parseVars, docVars, batchVars, saveVars>>
        \/ ParseResult(t) /\ UNCHANGED <<rwtVars, schemaVars, parseVars, docVars, batchVars, saveVars>>
        \/ Except(t) /\ UNCHANGED <<rwtVars, schemaVars, parseVars, docVars, batchVars, saveVars>>
        \/ Finally(t) /\ UNCHANGED <<rwtVars, schemaVars, parseVars, docVars, batchVars, saveVars>>
SlotSpec == SlotSpecInit /\ [][SlotSpecNext]_vars

\* function_to_tool_schema on every signature within the bounds.
SchemaSpecInit == SchemaInit /\ RwtUnused /\ SlotUnused /\ ParseUnused /\ DocUnused /\ BatchUnused /\ SaveUnused
SchemaSpecNext ==
    \/ BuildSchema /\ UNCHANGED <<rwtVars, slotVars, parseVars, docVars, batchVars, saveVars>>
SchemaSpec == SchemaSpecInit /\ [][SchemaSpecNext]_vars

\* parse_json_response on every model text within the bounds.
ParseSpecInit == ParseInit /\ RwtUnused /\ SlotUnused /\ SchemaUnused /\ DocUnused /\ BatchUnused /\ SaveUnused
ParseSpecNext ==
    \/ Parse /\ UNCHANGED <<rwtVars, slotVars, schemaVars, docVars, batchVars, saveVars>>
ParseSpec == ParseSpecInit /\ [][ParseSpecNext]_vars

\* extract_document_structure on every document within the bounds, then the retrieval tools on its result.
DocSpecInit == DocInit /\ RwtUnused /\ SlotUnused /\ SchemaUnused /\ ParseUnused /\ BatchUnused /\ SaveUnused
DocSpecNext ==
    \/ ExtractStructure /\ UNCHANGED <<rwtVars, slotVars, schemaVars, parseVars, batchVars, saveVars>>
    \/ LoadDocument /\ UNCHANGED <<rwtVars, slotVars, schemaVars, parseVars, batchVars, saveVars>>
    \/ CallGetSectionByIndex /\ UNCHANGED <<rwtVars, slotVars, schemaVars, parseVars, batchVars, saveVars>>
    \/ CallGetSectionByHeading /\ UNCHANGED <<rwtVars, slotVars, schemaVars, parseVars, batchVars, saveVars>>
    \/ CallGetMultipleSections /\ UNCHANGED <<rwtVars, slotVars, schemaVars, parseVars, batchVars, saveVars>>
DocSpec == DocSpecInit /\ [][DocSpecNext]_vars

\* The directory mode of main.
BatchSpecInit == BatchInit /\ RwtUnused /\ SlotUnused /\ SchemaUnused /\ ParseUnused /\ DocUnused /\ SaveUnused
BatchSpecNext ==
    \/ NoFiles /\ UNCHANGED <<rwtVars, slotVars, schemaVars, parseVars, docVars, saveVars>>
    \/ AskUser /\ UNCHANGED <<rwtVars, slotVars, schemaVars, parseVars, docVars, saveVars>>
    \/ ProcessOne /\ UNCHANGED <<rwtVars, slotVars, schemaVars, parseVars, docVars, saveVars>>
    \/ ConfirmNext /\ UNCHANGED <<rwtVars, slotVars, schemaVars, parseVars, docVars, saveVars>>
    \/ ProcessNext /\ UNCHANGED <<rwtVars, slotVars, schemaVars, parseVars, docVars, saveVars>>
    \/ Summary /\ UNCHANGED <<rwtVars, slotVars, schemaVars, parseVars, docVars, saveVars>>
BatchSpec == BatchSpecInit /\ [][BatchSpecNext]_vars

\* save_product_knowledge called up to MaxSaves times for one product.
SaveSpecInit == SaveInit /\ RwtUnused /\ SlotUnused /\ SchemaUnused /\ ParseUnused /\ DocUnused /\ BatchUnused
SaveSpecNext ==
    \/ SaveProductKnowledge /\ UNCHANGED <<rwtVars, slotVars, schemaVars, parseVars, docVars, batchVars>>
SaveSpec == SaveSpecInit /\ [][SaveSpecNext]_vars

(***************************************************************************)
(* Properties of run_with_tools                                            *)
(***************************************************************************)

\* The bound on requests the documentation of the loop states.
MaxRequests == 20

Terminated == pc \in {"returned", "raised"}

AssistantPositions == {p \in 1..Len(messages) : messages[p].role = "assistant"}
LastAssistant == IF AssistantPositions = {} THEN 0
                 ELSE CHOOSE p \in AssistantPositions : \A q \in AssistantPositions : q <= p

\* The for loop is done with call j of the request message at position p
\* (it appended a result, or an exception left the loop at that call).
Reached(p, j) ==
    \/ p < LastAssistant
    \/ pc \in {"await", "returned"}
    \/ pc = "tools" /\ j < k
    \/ pc = "raised" /\ j <= k

\* The round of the request message at position p is over.
RoundOver(p) == p < LastAssistant \/ pc # "tools"

\* Every response so far had finish_reason "tool_calls": each one but possibly
\* the last (an empty list) added its request message.
NeverStop ==
    /\ requests > 0
    /\ choice.finish_reason = "tool_calls"
    /\ Cardinality(AssistantPositions) >= requests - 1

IsErrorObject(content) ==
    /\ ~content.none
    /\ json_loads(content.text).ok
    /\ Len(json_loads(content.text).val) > 5
    /\ SubSeq(json_loads(content.text).val, 1, 5) = <<"{", "\"", "error", "\"", ":">>

\* An upper bound on the steps the invocation has left.
StepsLeft ==
    (max_iterations - iteration) * (MaxCalls + 1)
    + (IF pc = "tools" THEN Len(choice.tool_calls) - k + 1 ELSE 0)
    + (IF Terminated THEN 0 ELSE 1)

\* The invocation has ended or has a next statement to run: the loop test, or
\* the call at position k of the request being executed.
CanProceed ==
    \/ Terminated
    \/ pc = "await" /\ (LoopTest \/ ENABLED LoopExit)
    \/ pc = "tools" /\ k \in 1..Len(choice.tool_calls)

C2_ReturnsNonEmpty ==
    (pc = "returned" /\ NeverStop) =>
        (requests <= MaxRequests /\ ~retval.json /\ Truthy(retval.content))

\* C2 (amended): when every response has finish signal tool_calls, at most 20
\* requests are made and the value returned is the last response's content, or
\* the empty string when that content is absent or empty.
C2_ReturnsLastContentOrEmpty ==
    NeverStop =>
        /\ requests <= MaxRequests
        /\ (pc = "await" /\ requests = MaxRequests) => ENABLED LoopExit
        /\ pc = "returned" =>
              /\ ~retval.json
              /\ ~retval.content.none
              /\ Truthy(choice.content) => retval.content = choice.content
              /\ ~Truthy(choice.content) => retval.content.text = <<>>

\* C2 (witness): 20 tool-call rounds, and the empty string is returned.
C2_Witness ==
    /\ pc = "returned" /\ NeverStop /\ requests = MaxRequests
    /\ retval.content = Str(<<>>)

\* C3: for every round in which the model requests tool calls c1..ck, exactly one
\* tool-result message per request follows the request message, in the order
\* c1..ck, each carrying its request's id.
C3_OneResultPerRequestInOrder ==
    \A p \in AssistantPositions :
        RoundOver(p) =>
            LET calls == messages[p].tool_calls IN
            /\ Len(messages) >= p + Len(calls)
            /\ \A j \in 1..Len(calls) :
                  /\ messages[p + j].role = "tool"
                  /\ messages[p + j].tool_call_id = calls[j].id
            /\ Len(messages) > p + Len(calls) => messages[p + Len(calls) + 1].role # "tool"

\* C4: a failure while executing a requested tool call (the tool raises, the
\* arguments cannot be decoded or bound) never reaches the caller: the call gets
\* a tool-result message whose content is a JSON object with an "error" key.
C4_ToolFailureNeverPropagates ==
    /\ pc # "raised"
    /\ \A p \in AssistantPositions : \A j \in 1..Len(messages[p].tool_calls) :
          LET call == messages[p].tool_calls[j] IN
          (Reached(p, j) /\ call.name \in tool_map
              /\ (~json_loads(call.arguments).ok \/ ~Binds(json_loads(call.arguments).val)))
          => /\ Len(messages) >= p + j
             /\ messages[p + j].tool_call_id = call.id
             /\ IsErrorObject(messages[p + j].content)

\* The calls of known tools with arguments that decode and bind, among the calls
\* the loop is done with.
InvokingCalls ==
    {<<p, j>> \in AssistantPositions \X (1..MaxCalls + 1) :
        /\ j <= Len(messages[p].tool_calls)
        /\ Reached(p, j)
        /\ messages[p].tool_calls[j].name \in tool_map
        /\ json_loads(messages[p].tool_calls[j].arguments).ok
        /\ Binds(json_loads(messages[p].tool_calls[j].arguments).val)}

\* C5: a request for a function that is not among the callables raises nothing
\* and invokes no callable; its result message carries the request's id and the
\* content {"error": "Function <name> not found"}, and the loop continues.
C5_UnknownFunctionReported ==
    /\ invoked = Cardinality(InvokingCalls)
    /\ \A p \in AssistantPositions : \A j \in 1..Len(messages[p].tool_calls) :
          LET call == messages[p].tool_calls[j] IN
          (Reached(p, j) /\ call.name \notin tool_map)
          => /\ ~(pc = "raised" /\ p = LastAssistant /\ j = k)
             /\ Len(messages) >= p + j
             /\ messages[p + j].role = "tool"
             /\ messages[p + j].tool_call_id = call.id
             /\ messages[p + j].content =
                  Str(<<"{", "\"", "error", "\"", ":", " ", "\"",
                        "Function ", call.name, " not found", "\"", "}">>)

\* C6: on finish signal stop the content is returned at once and no tool runs:
\* unchanged for return_type str; for another return_type and non-empty content,
\* the decoded JSON when parse_json_response succeeds and the raw text when it
\* fails; nothing is raised.
C6_StopReturnsContentOrParsed ==
    choice.finish_reason = "stop" =>
        /\ pc = "returned"
        /\ messages = sent.messages
        /\ requests = iteration
        /\ return_type = "str" => retval = RetContent(choice.content)
        /\ (return_type # "str" /\ ~Truthy(choice.content)) => retval = RetContent(choice.content)
        /\ (return_type # "str" /\ Truthy(choice.content)) =>
              IF parse_json_response(choice.content).ok
              THEN retval.json /\ retval.val = parse_json_response(choice.content).val
              ELSE retval = RetContent(choice.content)
        /\ (return_type # "str" /\ choice.content \in {Str(FenceJson \o <<"\n">> \o JsonText \o <<"\n">> \o Fence),
                                                        Str(<<"Sure, here", ":", " ">> \o JsonText \o <<"\n">>)})
              => retval = RetJson(<<"{", "\"", "a", "\"", ":", "1", "}">>)
        /\ (return_type # "str" /\ choice.content = Str(<<"hi">>)) => retval = RetContent(Str(<<"hi">>))

\* C6 (witness): decoding was asked for and failed, and the raw text came back.
C6_Witness ==
    /\ pc = "returned" /\ choice.finish_reason = "stop" /\ return_type # "str"
    /\ Truthy(choice.content) /\ ~parse_json_response(choice.content).ok
    /\ retval = RetContent(choice.content)
    /\ iteration > 1

\* C7: on a finish signal that is neither stop nor tool_calls, and on tool_calls
\* with an empty list, no further request is made, nothing is appended, nothing
\* is raised, and the last content is returned ("" when it is absent).
C7_UnexpectedFinishReturnsPartial ==
    (requests > 0 /\ choice.finish_reason # "stop" /\ choice.tool_calls = <<>>) =>
        /\ pc = "returned"
        /\ requests = iteration
        /\ messages = sent.messages
        /\ ~retval.json
        /\ retval.content = (IF choice.content.none THEN Str(<<>>) ELSE choice.content)

\* C7 (witness): an unknown finish signal with no content, after a tool round.
C7_Witness ==
    /\ pc = "returned" /\ choice.finish_reason \in OtherFinish /\ choice.content.none
    /\ retval = RetContent(Str(<<>>)) /\ iteration > 1

\* C18: the timeout given to run_with_tools is applied to every request sent
\* to the model backend: it is among the arguments of each request.
C18_TimeoutOnEveryRequest == requests > 0 => "timeout" \in sent.keys

\* The assistant message that opens the round message p belongs to: the last
\* assistant message before p (0 when there is none).
RoundStart(p) ==
    LET before == {q \in AssistantPositions : q < p}
    IN  IF before = {} THEN 0 ELSE CHOOSE q \in before : \A r \in before : r <= q

\* After the user message come only rounds: an assistant message that requests
\* tool calls, then the result messages of its calls, in the order of the calls
\* and under their ids; a round is opened only when the one before is complete.
RoundsFollowPrompt ==
    /\ Len(messages) >= 1
    /\ messages[1] = UserMessage(Prompt)
    /\ \A p \in 2..Len(messages) :
          LET q == RoundStart(p) IN
          IF messages[p].role = "assistant"
          THEN /\ messages[p].tool_calls # <<>>
               /\ IF q = 0 THEN p = 2 ELSE p = q + Len(messages[q].tool_calls) + 1
          ELSE /\ messages[p].role = "tool"
               /\ q # 0
               /\ p - q <= Len(messages[q].tool_calls)
               /\ messages[p].tool_call_id = messages[q].tool_calls[p - q].id
               /\ messages[p].name = messages[q].tool_calls[p - q].name

\* A step leaves messages as it is or appends to it.
GrowsByAppending ==
    /\ Len(messages') >= Len(messages)
    /\ SubSeq(messages', 1, Len(messages)) = messages

\* C19: messages starts as the single user message with the prompt; after every
\* step the messages before the step are a prefix of the messages after it; what
\* is appended is, round by round, the assistant's request message and then the
\* result messages of its tool calls.
C19_ConversationOnlyGrows ==
    /\ messages = <<UserMessage(Prompt)>>
    /\ []RoundsFollowPrompt
    /\ [][GrowsByAppending]_vars

\* C19 (witness): a complete round of two tool calls, followed by the request
\* message of a second round.
C19_Witness ==
    /\ Len(messages) >= 5
    /\ messages[2].role = "assistant" /\ Len(messages[2].tool_calls) = 2
    /\ messages[3].role = "tool" /\ messages[4].role = "tool"
    /\ messages[5].role = "assistant"

\* The invocation has ended after a 20th response that requested tool calls.
EndedAfterLastRoundOfCalls ==
    /\ Terminated
    /\ requests = MaxRequests
    /\ choice.finish_reason = "tool_calls"
    /\ choice.tool_calls # <<>>

\* C29: when the 20th response requests tool calls, each call gets its result
\* message appended after the request message, no 21st request is made, so the
\* last request sent holds none of these messages, and the value returned is
\* the content of the 20th response, or "" when it has none.
C29_LastRoundRunsUnsent ==
    EndedAfterLastRoundOfCalls =>
        /\ pc = "returned"
        /\ Len(messages) = LastAssistant + Len(choice.tool_calls)
        /\ \A j \in 1..Len(choice.tool_calls) :
              /\ messages[LastAssistant + j].role = "tool"
              /\ messages[LastAssistant + j].tool_call_id = choice.tool_calls[j].id
        /\ sent.messages = SubSeq(messages, 1, LastAssistant - 1)
        /\ ~retval.json
        /\ retval.content = (IF Truthy(choice.content) THEN choice.content ELSE Str(<<>>))

(***************************************************************************)
(* Properties of the document slot                                         *)
(***************************************************************************)

\* C8: _current_document_data is None whenever no call of
\* extract_product_knowledge or extract_document_template is in progress: each
\* call sets it on entry and resets it on every exit path, also when the model
\* call or the decoding of its result raises.
C8_SlotClearedWhenIdle ==
    /\ (\A t \in Callers : ~InProgress(t)) => current_document_data = NoDocument
    /\ \A t \in Callers :
          (InProgress(t) /\ ~overlapped[t]) => current_document_data = doc_data(t)

\* C8 (witness): a call whose try block raised is over, and no call is in progress.
C8_Witness ==
    /\ \A t \in Callers : ~InProgress(t)
    /\ path[1] = "raise" /\ path[2] = "return"
    /\ current_document_data = NoDocument

\* C9 (as claimed): also when two calls overlap, every retrieval tool call made
\* for a call reads the document passed to that call.
C9_ReadsOwnDocumentAlways ==
    \A t \in Callers : seen[t] \subseteq {doc_data(t)}

\* C9 (amended): every retrieval tool call made for a call that no other call
\* overlaps reads the document passed to that call; isolation is not kept
\* between overlapping calls.
C9_ReadsOwnDocumentWhenAlone ==
    \A t \in Callers : ~overlapped[t] => seen[t] \subseteq {doc_data(t)}

\* C9 (witness): the second caller, after the first is done, has read its own document.
C9_Witness ==
    /\ ~overlapped[2] /\ seen[2] = {doc_data(2)} /\ epc[2] = "try"
    /\ path[1] # "none" /\ ~InProgress(1)

(***************************************************************************)
(* Properties of function_to_tool_schema                                   *)
(***************************************************************************)

\* The positions of sig, self left out, in declaration order.
Declared == SelectSeq(sig, LAMBDA p : p.name # "self")

\* A Union containing None, in either spelling: Union[..., None] or ... | None.
UnionWithNone(annotation) ==
    /\ annotation.origin \in {"Union", "UnionType"}
    /\ NoneType \in {annotation.args[i] : i \in 1..Len(annotation.args)}

\* C10: with N parameters that have no default and a non-Optional annotation
\* and M others (self left out), properties has N+M entries and required is the
\* N names in declaration order; a parameter is required iff it has no default
\* and its annotation is not a Union containing None.
C10_RequiredAndProperties ==
    built =>
        LET IsReq(p) == ~p.has_default /\ ~UnionWithNone(p.annotation)
            N == Cardinality({i \in 1..Len(Declared) : IsReq(Declared[i])})
            M == Len(Declared) - N
        IN  /\ Len(schema.properties) = N + M
            /\ \A i \in 1..Len(Declared) : schema.properties[i].name = Declared[i].name
            /\ Len(schema.required) = N
            /\ \A i \in 1..N : schema.required[i] = SelectSeq(Declared, IsReq)[i].name

RECURSIVE ClaimedTypeSchema(_)
\* The schema the mapping gives for an annotation: the type tag, followed by
\* the schema of the items for a list of T.  A Union is one in either spelling.
ClaimedTypeSchema(annotation) ==
    IF annotation = Plain("str") THEN <<"string">>
    ELSE IF annotation = Plain("int") THEN <<"integer">>
    ELSE IF annotation = Plain("float") THEN <<"number">>
    ELSE IF annotation = Plain("bool") THEN <<"boolean">>
    ELSE IF annotation = Plain("dict") THEN <<"object">>
    ELSE IF annotation.origin = "list" /\ annotation.args # <<>>
    THEN <<"array">> \o ClaimedTypeSchema(annotation.args[1])
    ELSE IF annotation.origin \in {"Union", "UnionType"}
    THEN ClaimedTypeSchema(SelectSeq(annotation.args, LAMBDA a : a # NoneType)[1])
    ELSE <<"string">>

\* C26: _get_type_schema gives for every annotation the schema of the mapping:
\* the tags of str, int, float, bool and dict, array with the schema of T as
\* items for a list of T, the schema of T for Optional[T], the schema of the
\* first member that is not None for a Union, string for anything else.
C26_TypeSchemaAsClaimed ==
    built =>
        \A i \in 1..Len(Declared) :
            schema.properties[i].schema = ClaimedTypeSchema(Declared[i].annotation)

(***************************************************************************)
(* Properties of parse_json_response                                       *)
(***************************************************************************)

HasBraceOrBracket(s) == \E i \in 1..Len(s) : s[i] \in {"{", "["}

NoJsonPrefix == <<"No JSON found in response. Content starts with: ">>

\* C11: parse_json_response raises the decode error, and returns nothing, for
\* absent, empty and whitespace-only input and for input that after fence
\* stripping holds neither '{' nor '['; in the last case the message carries the
\* first 100 characters of the remaining text.
C11_ParseFailsWithoutJson ==
    parsed.called =>
        /\ (content_arg.none \/ Strip(content_arg.text) = <<>>) => ~parsed.ok
        /\ LET rest == StripFences(Strip(content_arg.text)) IN
           (~content_arg.none /\ ~HasBraceOrBracket(rest)) =>
               /\ ~parsed.ok
               /\ rest # <<>> =>
                    parsed.msg = NoJsonPrefix
                        \o SubSeq(rest, 1, IF Len(rest) < ExcerptLen THEN Len(rest) ELSE ExcerptLen)
        /\ (~parts.absent /\ parts.before = <<>> /\ parts.after = <<>>
            /\ parts.fence \in {"none", "plain", "json"} /\ parts.body.text = LongText)
              => parsed.msg = NoJsonPrefix \o [i \in 1..ExcerptLen |-> "x"]
        /\ (~parts.absent /\ parts.before = <<>> /\ parts.after = <<>>
            /\ parts.fence = "none" /\ parts.body.text \in {<<"h", "i">>, <<"4", "2">>})
              => parsed.msg = NoJsonPrefix \o parts.body.text
        /\ (~parts.absent /\ parts.before = <<>> /\ Strip(parts.after) = <<>>
            /\ parts.fence = "none" /\ parts.body.text = <<>>) => ~parsed.ok

\* C11 (witness): a fenced text of 120 characters without brace or bracket was
\* refused with an excerpt of 100 characters.
C11_Witness ==
    /\ parsed.called /\ ~parsed.ok /\ ~parts.absent
    /\ parts.fence = "plain" /\ parts.before = <<>> /\ parts.body.text = LongText
    /\ Len(parsed.msg) = 1 + ExcerptLen

\* The text is a JSON object or array with narration before it, after it or both.
Narrated ==
    /\ ~parts.absent /\ parts.fence = "none" /\ parts.body.json
    /\ (parts.before # <<>> \/ Strip(parts.after) # <<>>)

\* C12 (as claimed): for every text made of a valid JSON object or array with
\* narration before and/or after it, parse_json_response returns that value.
C12_RecoversNarratedJson ==
    (parsed.called /\ Narrated) => (parsed.ok /\ parsed.val = parts.body.val)

\* C12 (amended): the value is returned when the narration stands before it only
\* and holds neither '{' nor '[', and when the value stands in a json fence,
\* closed (any narration around it) or unclosed (no narration after it).
C12_RecoversLeadingOrFenced ==
    (parsed.called /\ ~parts.absent /\ parts.body.json
     /\ \/ parts.fence = "none" /\ ~HasBraceOrBracket(parts.before) /\ Strip(parts.after) = <<>>
        \/ parts.fence = "json"
        \/ parts.fence = "json unclosed" /\ Strip(parts.after) = <<>>)
        => (parsed.ok /\ parsed.val = parts.body.val)

\* C12 (witness): a JSON object after the narration "Ok: " was returned.
C12_Witness ==
    /\ parsed.called /\ Narrated /\ parts.lead # <<>>
    /\ parts.before = <<"O", "k", ":", " ">> /\ parts.after = <<"\n">>
    /\ parts.body.val = <<"{", "\"", "a", "\"", ":", "1", "}">>
    /\ parsed.ok /\ parsed.val = parts.body.val

\* The call was made on a text (not on None).
ParsedText == parsed.called /\ ~parts.absent

Trimmed == Strip(content_arg.text)

\* The outcome of the call, to compare with the outcome of a decoding.
Outcome == [ok |-> parsed.ok, val |-> parsed.val]

\* The text between the first json fence marker of s and the next fence marker
\* after it, or all that follows the marker when no fence marker follows.
JsonFenceSpan(s) ==
    LET from == Find(s, FenceJson, 0) + Len(FenceJson)
        to == Find(s, Fence, from)
    IN  Slice(s, from, IF to = -1 THEN Len(s) ELSE to)

\* C23 (as claimed): when the trimmed text holds the json fence marker, the
\* outcome is that of decoding exactly the span after the first such marker.
C23_DecodesExactlyTheSpan ==
    (ParsedText /\ Contains(Trimmed, FenceJson)) =>
        Outcome = json_loads(Strip(JsonFenceSpan(Trimmed)))

\* C23 (amended): when the trimmed text holds the json fence marker, the
\* outcome is that of the remaining steps, the preamble rule and the decoder,
\* on the span after the first such marker, whatever stands outside the span:
\* around a closed json fence the value of the body is returned iff the body is
\* a JSON object or array, also with a narration before it inside the fence.
C23_OutcomeIsThatOfTheSpan ==
    (ParsedText /\ Contains(Trimmed, FenceJson)) =>
        /\ Outcome = parse_json_response(Str(JsonFenceSpan(Trimmed)))
        /\ parts.fence \in {"json", "json narrated", "json in plain"} =>
              /\ parsed.ok <=> parts.body.json
              /\ parsed.ok => parsed.val = parts.body.val
        /\ parts.fence = "json unclosed" =>
              /\ parsed.ok <=> (parts.body.json /\ Strip(parts.after) = <<>>)
              /\ parsed.ok => parsed.val = parts.body.val

\* C23 (witness): a json fence inside a generic fence, narration after it, and
\* the object in the json fence was returned.
C23_Witness ==
    /\ ParsedText /\ parts.fence = "json in plain" /\ parts.before = <<>>
    /\ StartsWith(Trimmed, Fence \o <<"\n">>)
    /\ parts.after = <<" ", "o", "k", ".">>
    /\ parsed.ok /\ parsed.val = <<"{", "\"", "a", "\"", ":", "1", "}">>

\* The text begins with a generic fence and holds no json fence marker.
GenericFences ==
    {"plain", "plain tagged", "plain tight", "plain unclosed", "plain one line",
     "plain open tight"}
GenericFenced == ParsedText /\ parts.before = <<>> /\ parts.fence \in GenericFences

HasLineBreak(s) == \E i \in 1..Len(s) : s[i] = "\n"

\* s without its first line; s without its last line.
WithoutFirstLine(s) ==
    IF HasLineBreak(s) THEN Slice(s, Find(s, <<"\n">>, 0) + 1, Len(s)) ELSE <<>>
WithoutLastLine(s) ==
    IF HasLineBreak(s) THEN Slice(s, 0, RFind(s, <<"\n">>)) ELSE <<>>

Unfenced == StripFences(Trimmed)

\* The positions of s that hold '{' or '['.
JsonStarts(s) == {i \in 1..Len(s) : s[i] \in {"{", "["}}

\* s from its first '{' or '[' on.
FromFirstJsonStart(s) ==
    LET first == CHOOSE i \in JsonStarts(s) : \A j \in JsonStarts(s) : i <= j
    IN  SubSeq(s, first, Len(s))

\* C25: when the text left after fence stripping does not start with '{' or '['
\* but holds one, the outcome is that of decoding the text from the earliest
\* '{' or '[' on; when it starts with one of them, that of decoding all of it.
C25_CutsAtEarliestBraceOrBracket ==
    ParsedText =>
        /\ (Unfenced # <<>> /\ JsonStarts(Unfenced) # {}) =>
              Outcome = json_loads(FromFirstJsonStart(Unfenced))
        /\ (Unfenced # <<>> /\ 1 \in JsonStarts(Unfenced)) => Outcome = json_loads(Unfenced)
        /\ (parts.fence = "none" /\ parts.body.json /\ Strip(parts.after) = <<>>) =>
              /\ parts.before \in {<<>>, <<"O", "k", ":", " ">>}
                    => (parsed.ok /\ parsed.val = parts.body.val)
              /\ HasBraceOrBracket(parts.before) => ~parsed.ok

\* C25 (witness): after "Ok: " comes an object that holds an array: the text
\* was cut at the brace, which comes first, and the object was returned.
C25_Witness ==
    /\ ParsedText /\ parts.fence = "none" /\ parts.before = <<"O", "k", ":", " ">>
    /\ parts.body.text = <<"{", "\"", "a", "\"", ":", "[", "]", "}">>
    /\ parts.after = <<>> /\ parts.lead = <<>>
    /\ parsed.ok /\ parsed.val = parts.body.text

\* The bodies that are a JSON number, string, true or null.
PrimitiveBodies == {<<"4", "2">>, <<"\"", "h", "i", "\"">>, <<"t", "r", "u", "e">>,
                    <<"n", "u", "l", "l">>}

IsBlank(j) == \A i \in 1..Len(paragraphs[j].text) : paragraphs[j].text[i] \in WS
IsHeadingParagraph(j) ==
    ~IsBlank(j) /\ \E i \in 1..Len(paragraphs[j].style) : paragraphs[j].style[i] = "Heading"
IsBodyParagraph(j) == ~IsBlank(j) /\ ~IsHeadingParagraph(j)

\* The positions of the headings in the document, in document order.
HeadingPositions == SelectSeq([j \in 1..Len(paragraphs) |-> j], IsHeadingParagraph)

\* The positions that belong to the i-th heading: after it and before the next.
BodyOf(i) ==
    {j \in 1..Len(paragraphs) :
        /\ j > HeadingPositions[i]
        /\ i < Len(HeadingPositions) => j < HeadingPositions[i + 1]}

\* The tools were called on the index of the document (the slot was set).
CalledOnDocument(tool) == tool_out.tool = tool /\ loaded

FormattedSection(i) ==
    <<"#", " ">> \o document_data.sections[i].heading \o <<"\n", "\n">>
    \o document_data.sections[i].content

\* The indices of the section map, ascending.
PresentIndices ==
    SelectSeq([i \in 1..(MaxParas + 1) |-> i - 1], LAMBDA i : i \in DOMAIN document_data.sections)

\* C13: get_section_by_index never raises and returns a string: the formatted
\* heading and content for an index of the section map, and for any other index
\* an error string that lists the indices of the section map in ascending order.
C13_IndexLookupReportsMisses ==
    tool_out.tool = "get_section_by_index" =>
        /\ ~tool_out.result.raised
        /\ (loaded /\ tool_out.arg \in DOMAIN document_data.sections)
              => tool_out.result.text = FormattedSection(tool_out.arg)
        /\ (loaded /\ tool_out.arg \notin DOMAIN document_data.sections)
              => tool_out.result.text =
                    <<"Error: Section ">> \o IntToStr(tool_out.arg)
                    \o <<" not found. Available sections: ">>
                    \o Join(<<",", " ">>,
                            [n \in 1..Len(PresentIndices) |-> IntToStr(PresentIndices[n])])

\* C13 (witness): index 2 was asked for in a document whose section map has the
\* indices 0 and 1; the error lists "0, 1".
C13_Witness ==
    /\ CalledOnDocument("get_section_by_index") /\ tool_out.arg = 2
    /\ DOMAIN document_data.sections = {0, 1}
    /\ tool_out.result.text =
          <<"Error: Section ", "2", " not found. Available sections: ", "0", ",", " ", "1">>

\* The headings that match a keyword: case-insensitive substring.
MatchingHeadings(keyword) ==
    {i \in 1..Len(HeadingPositions) :
        \E a \in 0..Len(document_data.structure[i].heading) :
            /\ a + Len(keyword) <= Len(document_data.structure[i].heading)
            /\ \A n \in 1..Len(keyword) :
                  LowerChar(document_data.structure[i].heading[a + n]) = LowerChar(keyword[n])}

\* C14: for a keyword that matches exactly one heading, get_section_by_heading
\* returns that section's formatted heading and content, without raising, also
\* when the heading has no body text.
C14_SingleMatchReturnsSection ==
    (CalledOnDocument("get_section_by_heading")
     /\ Cardinality(MatchingHeadings(tool_out.arg)) = 1) =>
        LET i == CHOOSE i \in MatchingHeadings(tool_out.arg) : TRUE IN
        /\ ~tool_out.result.raised
        /\ StartsWith(tool_out.result.text,
                      <<"#", " ">> \o document_data.structure[i].heading \o <<"\n", "\n">>)
        /\ i \in DOMAIN document_data.sections => tool_out.result.text = FormattedSection(i)

\* C15: get_section_by_heading does not guess: no match gives an error string;
\* two or more matches give a list with the index and heading of every match in
\* document order, and the content of no section.
C15_HeadingLookupNeverGuesses ==
    CalledOnDocument("get_section_by_heading") =>
        LET hits == MatchingHeadings(tool_out.arg)
            ordered == SelectSeq([i \in 1..Len(HeadingPositions) |-> i], LAMBDA i : i \in hits)
        IN  /\ hits = {} =>
                  /\ ~tool_out.result.raised
                  /\ tool_out.result.text =
                        <<"Error: No sections found matching ", "'">> \o tool_out.arg \o <<"'">>
            /\ Cardinality(hits) >= 2 =>
                  /\ ~tool_out.result.raised
                  /\ tool_out.result.text =
                        <<"Multiple sections found matching ", "'">> \o tool_out.arg
                        \o <<"'", ":", "\n">>
                        \o Join(<<"\n">>,
                                [n \in 1..Len(ordered) |->
                                    <<" ", " ">> \o IntToStr(ordered[n]) \o <<".", " ">>
                                    \o document_data.structure[ordered[n]].heading])
                        \o <<"\n", "\n", "Use get_section_by_index() to retrieve a specific one.">>
                  /\ \A i \in DOMAIN document_data.sections :
                        ~Contains(tool_out.result.text, document_data.sections[i].content)

\* C15 (witness): "scope" matched the headings 1 and 3 of a document in which
\* heading 3 has a body; a list was returned.
C15_Witness ==
    /\ CalledOnDocument("get_section_by_heading")
    /\ tool_out.arg = <<"s", "c", "o", "p", "e">>
    /\ Len(paragraphs) = 3 /\ IsHeadingParagraph(1) /\ IsHeadingParagraph(2) /\ IsBodyParagraph(3)
    /\ MatchingHeadings(tool_out.arg) = {1, 2}
    /\ StartsWith(tool_out.result.text, <<"Multiple sections found matching ">>)

\* C16: get_multiple_sections returns one part per requested index, in request
\* order: the heading and content of a section that is there, a not-found note
\* for one that is not; a missing index does not make the call fail.
C16_BatchFetchIsBestEffort ==
    tool_out.tool = "get_multiple_sections" =>
        /\ ~tool_out.result.raised
        /\ loaded =>
             tool_out.result.text =
                Join(<<"\n", "-", "-", "-", "\n", "\n">>,
                     [n \in 1..Len(tool_out.arg) |->
                        IF tool_out.arg[n] \in DOMAIN document_data.sections
                        THEN FormattedSection(tool_out.arg[n]) \o <<"\n">>
                        ELSE <<"[Section ", DigitChars[tool_out.arg[n] + 1], " not found]", "\n">>])

\* C16 (witness): a missing index followed by one that is there.
C16_Witness ==
    /\ CalledOnDocument("get_multiple_sections") /\ Len(tool_out.arg) = 2
    /\ tool_out.arg[1] \notin DOMAIN document_data.sections
    /\ tool_out.arg[2] \in DOMAIN document_data.sections
    /\ StartsWith(tool_out.result.text,
                  <<"[Section ", DigitChars[tool_out.arg[1] + 1], " not found]", "\n",
                    "\n", "-", "-", "-", "\n", "\n", "#", " ">>)

\* C20: headings are numbered 1, 2, 3, ... in document order, without gap or
\* repeat, with levels in 1..5; the section map has an entry for a heading index
\* iff a non-empty non-heading paragraph lies between that heading and the next
\* heading or the end of the document.
C20_HeadingsNumberedAndSectionsIffBody ==
    ~document_data.none =>
        /\ Len(document_data.structure) = Len(HeadingPositions)
        /\ \A i \in 1..Len(document_data.structure) :
              /\ document_data.structure[i].index = i
              /\ document_data.structure[i].level \in 1..5
              /\ document_data.structure[i].heading = Strip(paragraphs[HeadingPositions[i]].text)
              /\ i \in DOMAIN document_data.sections <=> \E j \in BodyOf(i) : IsBodyParagraph(j)
        /\ DOMAIN document_data.sections \subseteq 0..Len(HeadingPositions)

\* C20 (witness): three paragraphs, heading, heading, body, and a table: two
\* entries in the structure, one in the section map, for heading 2.
C20_Witness ==
    /\ ~document_data.none /\ tables # <<>>
    /\ Len(paragraphs) = 3 /\ IsHeadingParagraph(1) /\ IsHeadingParagraph(2) /\ IsBodyParagraph(3)
    /\ Len(document_data.structure) = 2
    /\ DOMAIN document_data.sections = {2}

\* C21: every key of the section map is the index of an entry of the structure
\* list, and the heading and level of the section are those of that entry; also
\* when body paragraphs come before the first heading.
C21_SectionKeysAreHeadingIndices ==
    ~document_data.none =>
        \A key \in DOMAIN document_data.sections :
            \E i \in 1..Len(document_data.structure) :
                /\ document_data.structure[i].index = key
                /\ document_data.structure[i].heading = document_data.sections[key].heading
                /\ document_data.structure[i].level = document_data.sections[key].level

\* The index of the section that is open where table t lies: the number of
\* headings before it (0 for the section before the first heading).
OpenSectionAt(t) == Cardinality({j \in 1..table_after[t] : IsHeadingParagraph(j)})

TableText(t) == Join(<<"\n">>, TableContent(tables[t]))

\* C22: the text of every table is appended to the content of the section that
\* was opened last before the table in document order: it is in that section's
\* content and in the content of no other section.
C22_TablesGoToTheirSection ==
    ~document_data.none =>
        \A t \in 1..Len(tables) :
            /\ OpenSectionAt(t) \in DOMAIN document_data.sections
            /\ \A key \in DOMAIN document_data.sections :
                  Contains(document_data.sections[key].content, TableText(t))
                      <=> key = OpenSectionAt(t)

\* C27: a call of get_section_by_index, get_section_by_heading or
\* get_multiple_sections leaves _current_document_data, and the structure and
\* the section map of the dict it names, as they were, whatever the argument
\* and whatever the call returns or raises.
C27_ToolsLeaveTheSlot ==
    [][tool_out' # tool_out =>
          /\ loaded' = loaded
          /\ document_data' = document_data
          /\ document_data'.structure = document_data.structure
          /\ document_data'.sections = document_data.sections]_vars

\* C27 (witness): a document with two sections is in the slot, and a call of
\* get_section_by_index has missed.
C27_Witness ==
    /\ loaded /\ tool_out.tool = "get_section_by_index"
    /\ Cardinality(DOMAIN document_data.sections) = 2
    /\ tool_out.arg \notin DOMAIN document_data.sections
    /\ ~tool_out.result.raised
    /\ document_data = extract_document_structure(paragraphs, tables)

(***************************************************************************)
(* Properties of the directory mode                                        *)
(***************************************************************************)

\* The documents of the calls of process_document, in call order.
CalledDocuments == [j \in 1..Len(process_calls) |-> process_calls[j].doc]

SuccessfulCalls == {j \in 1..Len(process_calls) : process_calls[j].result = TRUE}

\* C17: the documents passed to process_document are the selected documents,
\* each once and in sorted order, whatever the earlier calls returned; every
\* call returns True or False and none raises; the count of successes reported
\* at the end is the number of calls that returned True.
C17_EverySelectedDocumentProcessedOnce ==
    /\ Len(CalledDocuments) <= Len(selected)
    /\ CalledDocuments = SubSeq(selected, 1, Len(CalledDocuments))
    /\ \A i, j \in 1..Len(selected) : i < j => selected[i] < selected[j]
    /\ \A j \in 1..Len(process_calls) : process_calls[j].result \in BOOLEAN
    /\ bpc = "done" => CalledDocuments = selected
    /\ (bpc = "done" /\ reported # NotReported) => reported = Cardinality(SuccessfulCalls)

\* C17 (witness): all of three documents were processed, the first failed, the
\* later ones succeeded, and 2 is reported.
C17_Witness ==
    /\ bpc = "done" /\ Len(docx_files) = 3 /\ ~approve_each
    /\ Len(process_calls) = 3
    /\ ~process_calls[1].result /\ process_calls[2].result /\ process_calls[3].result
    /\ reported = 2

(***************************************************************************)
(* Properties of save_product_knowledge                                    *)
(***************************************************************************)

\* The time a timestamp of two digits stands for.
TimeOf(t) == Ord(t[1]) * 10 + Ord(t[2])

\* overview.md holds a source_document_modified value.
HasStoredModified(file) == file.exists /\ ~file.modified.none

\* C30: while every call for the product carries a modified timestamp, the
\* source_document_modified value stored in overview.md never decreases: a
\* call whose timestamp is older than or equal to the stored value leaves
\* overview.md as it was, and the reference-material files of that call are
\* written by it all the same.
C30_StoredModifiedNeverDecreases ==
    [][ (saves' = saves + 1 /\ all_dated') =>
          /\ HasStoredModified(overview) =>
                /\ HasStoredModified(overview')
                /\ TimeOf(overview'.modified.text) >= TimeOf(overview.modified.text)
                /\ TimeOf(last_save'.modified.text) <= TimeOf(overview.modified.text)
                       => overview' = overview
                /\ TimeOf(last_save'.modified.text) > TimeOf(overview.modified.text)
                       => overview' = OverviewFile(last_save'.modified, saves')
          /\ \A t \in last_save'.reference_materials : reference_files'[t] = saves'
      ]_vars

\* A call with an older timestamp has come after a newer one: overview.md is
\* still the newer call's, and the older call's reference files are written.
C30_Witness ==
    /\ saves >= 2 /\ all_dated
    /\ HasStoredModified(overview)
    /\ overview.saved_by < saves
    /\ TimeOf(last_save.modified.text) < TimeOf(overview.modified.text)
    /\ last_save.reference_materials # {}
    /\ \A t \in last_save.reference_materials : reference_files[t] = saves

====
